---- MODULE Spec2Model ----
(***************************************************************************)
(* University club / event management backend (Express + drizzle/SQLite).  *)
(*                                                                         *)
(* The entity store is modelled table by table (a function from the live   *)
(* row ids to rows, next to the AUTOINCREMENT counters).  Every request    *)
(* handler is a small process: it occupies a handler slot, and each        *)
(* `await db...` of its code is one atomic step, so that handlers of       *)
(* independent HTTP requests interleave exactly at the awaits, as on the   *)
(* Node event loop.  The synchronous code between two awaits (the status   *)
(* checks and early returns) belongs to the step of the await before it.   *)
(***************************************************************************)
EXTENDS Integers, Sequences, FiniteSets, TLC

VARIABLES
    users,          \* users table: id -> [role]
    tokens,         \* the JWTs issued so far: [id, role] as signed at login
    clubRequests,   \* club_requests table
    clubs,          \* clubs table
    eventRequests,  \* event_requests table
    events,         \* events table
    posters,        \* posters table
    ticketBookings, \* ticket_bookings table
    posts,          \* posts table
    postLikes,      \* post_likes table
    autoinc,        \* the AUTOINCREMENT counter of every table
    handlers,       \* the request handlers in flight, and their last response
    faults,         \* the number of store calls that have thrown so far
    verificationCodes, \* authController's Map: email -> [code, expires]
    uploads,        \* the upload directory: file name -> mtime, and the names used
    now             \* Date.now(), in milliseconds

vars == <<users, tokens, clubRequests, clubs, eventRequests, events, posters,
          ticketBookings, posts, postLikes, autoinc, handlers, faults,
          verificationCodes, uploads, now>>

\* the posts and their likes
feed == <<posts, postLikes>>

tables == <<users, clubRequests, clubs, eventRequests, events, posters,
            ticketBookings, feed, autoinc>>

\* what a handler step leaves alone besides the tables it writes
env == <<tokens, faults, verificationCodes, uploads, now>>

\* the same for a step that writes or deletes an uploaded file
envOfUpload == <<tokens, faults, verificationCodes, now>>

-----------------------------------------------------------------------------
(* Bounds of the model *)

\* registered users: the seeded super admin and NumUsers - 1 others
NumUsers == 3
\* the largest number of seats and of persons a request body carries
MaxSeats == 2
\* club requests and event requests submitted in a run
MaxRequests == 2
\* posters and ticket bookings created in a run (new ones are accepted while
\* fewer rows than this exist)
MaxRows == 2
\* requests handled concurrently
MaxHandlers == 2
\* store calls that throw in a run
MaxFaults == 1
\* posts written in a run
MaxPosts == 2
\* likes given in a run
MaxLikes == 2
\* ticks of the clock in a run
MaxTicks == 3
\* files uploaded in a run
MaxFiles == 2

-----------------------------------------------------------------------------
(* Value sets *)

Roles == {"student", "head_admin", "super_admin"}

Statuses == {"pending", "approved", "rejected"}

UserIds == 1..NumUsers

Handlers == 1..MaxHandlers

ClubNames == {"Chess", "Robotics"}

EventNames == {"Open Day"}

\* seats of a poster, as createPoster and updatePoster receive it in the body
SeatsValues == 0..MaxSeats

\* a field the request body does not have
Undefined == -1

\* what `if (x)` and `x || y` take for true of a number or an absent field
Truthy(x) == x # Undefined /\ x # 0

\* numberOfPersons as bookTicket receives it: the handler validates nothing
\* about it, so zero and a negative number are inputs as well
PersonsValues == (-1)..MaxSeats

EmptyTable == [i \in {} |-> 0]

\* the upload directory when empty; last counts the file names handed out
\* (crypto.randomBytes(16) never gives the same name twice)
NoUploads == [files |-> EmptyTable, last |-> 0]

NoPoster == [eventId |-> 0, clubId |-> 0, headId |-> 0, seats |-> 0, seatsLeft |-> 0]

NoTicket == [posterId |-> 0, userId |-> 0, numberOfPersons |-> 0, status |-> "none"]

NoRequest == [headId |-> 0, status |-> "none"]

NoClub == [name |-> "", headId |-> 0]

NoPost == [clubId |-> 0, userId |-> 0, likes |-> 0, image |-> 0]

\* a handler's locals: req.user (uid, role), req.params.id (id), the body (n,
\* name), the rows it has read (po, tk, rq, cl, ps), the rows a loop still has
\* to visit (todo), its response (code, msg, and the ids of the entries of a
\* list it answers with, out), req.file.filename (file, 0 without a file),
\* and the verification code of the body (given)
Idle == [op |-> "none", pc |-> "idle", uid |-> 0, role |-> "none", id |-> 0,
         n |-> 0, name |-> "", po |-> NoPoster, tk |-> NoTicket, rq |-> NoRequest,
         cl |-> NoClub, ps |-> NoPost, todo |-> {}, code |-> 0, msg |-> "",
         out |-> {}, file |-> 0, given |-> ""]

-----------------------------------------------------------------------------
(* Store primitives *)

\* the rows the run has created so far, which the bounds cap
RowsCreated == Cardinality(DOMAIN posters) + Cardinality(DOMAIN ticketBookings)

\* a run takes a createPoster or bookTicket request while this holds
RoomForRows == RowsCreated < MaxRows

RequestsCreated == Cardinality(DOMAIN clubRequests) + Cardinality(DOMAIN eventRequests)

\* db.insert(t).values(row).run() on a table with an AUTOINCREMENT primary key
Insert(table, last, row) == table @@ ((last + 1) :> row)

\* db.update(t).set(...).where(eq(t.id, id)).run(): no row, no change
Update(table, id, set) ==
    [i \in DOMAIN table |-> IF i = id THEN set @@ table[i] ELSE table[i]]

\* res.status(code).json({ message }): the handler is over; only its operation
\* and its response stay visible
Respond(h, code, msg) ==
    handlers' = [handlers EXCEPT ![h] =
                    [Idle EXCEPT !.op = handlers[h].op, !.pc = "done",
                                 !.code = code, !.msg = msg]]

Goto(h, label) == handlers' = [handlers EXCEPT ![h].pc = label]

InFlight(h) == handlers[h].pc \notin {"idle", "done"}

\* a new request takes the first handler slot that is not in flight
Free(h) == ~InFlight(h) /\ \A g \in 1..(h - 1) : InFlight(g)

\* no request is being handled
Quiescent == \A h \in Handlers : ~InFlight(h)

\* authenticate + authorize(roles) of middleware/auth.js: req.user is the
\* decoded token, so the role is the one recorded in the token; the
\* controllers' own `req.user.role !== ...` checks read the same value
Authorized(t, roles) == roles = {} \/ t.role \in roles

\* the locals of a handler that is entered
Request(op, t, id, n, name, label) ==
    [Idle EXCEPT !.op = op, !.pc = label, !.uid = t.id, !.role = t.role,
                 !.id = id, !.n = n, !.name = name]

Start(h, op, t, id, n, name, label) ==
    handlers' = [handlers EXCEPT ![h] = Request(op, t, id, n, name, label)]

\* upload.single(field) of utils/fileUploadService.js: a request that carries
\* a file has it written to the upload directory under a new name before the
\* controller is entered; req.file.filename is that name
FileName(file) == IF file THEN uploads.last + 1 ELSE 0

Uploaded(file) ==
    IF file
    THEN [files |-> uploads.files @@ ((uploads.last + 1) :> now),
          last |-> uploads.last + 1]
    ELSE uploads

StartWithFile(h, op, t, id, n, name, label, file) ==
    handlers' = [handlers EXCEPT ![h] =
                    [Request(op, t, id, n, name, label) EXCEPT
                         !.file = FileName(file)]]

\* deleteFile(filename): if (!filename) return; unlink when the file exists
DeleteFile(filename) ==
    [uploads EXCEPT !.files = [f \in DOMAIN uploads.files \ {filename} |->
                                  uploads.files[f]]]

\* the handlers whose catch block runs `if (req.file) deleteFile(...)`
CatchDeletesFile(op) == op \in {"createEventRequest", "createPost"}

\* authorize(roles) answers 403 itself: the controller is never entered
Refuse(h) ==
    handlers' = [handlers EXCEPT ![h] =
                    [Idle EXCEPT !.pc = "done", !.code = 403,
                                 !.msg = "Unauthorized access"]]

-----------------------------------------------------------------------------
(* posterController.createPoster -- POST /api/posters *)

\* router.post('/', authenticate, authorize(['head_admin']), createPoster)
CreatePosterBegin(h, t, eventId, seats) ==
    /\ Free(h)
    /\ IF Authorized(t, {"head_admin"})
       THEN Start(h, "createPoster", t, eventId, seats, "", "cp_select")
       ELSE Refuse(h)
    /\ UNCHANGED <<tables, env>>

\* const event = await db.select().from(events)...; the 404 and 403 returns
CreatePosterSelect(h) ==
    /\ handlers[h].pc = "cp_select"
    /\ LET eventId == handlers[h].id IN
       IF eventId \notin DOMAIN events
       THEN Respond(h, 404, "Event not found")
       ELSE IF events[eventId].headId # handlers[h].uid
       THEN Respond(h, 403, "You can only create posters for your own events")
       ELSE handlers' = [handlers EXCEPT ![h].pc = "cp_insert",
                            ![h].po = [eventId |-> eventId,
                                       clubId |-> events[eventId].clubId,
                                       headId |-> handlers[h].uid,
                                       seats |-> handlers[h].n,
                                       seatsLeft |-> handlers[h].n]]
    /\ UNCHANGED <<tables, env>>

\* await db.insert(posters).values({ ..., seats, seatsLeft: seats, ... }).run()
CreatePosterInsert(h) ==
    /\ handlers[h].pc = "cp_insert"
    /\ posters' = Insert(posters, autoinc.posters, handlers[h].po)
    /\ autoinc' = [autoinc EXCEPT !.posters = @ + 1]
    /\ Respond(h, 201, "Poster created successfully")
    /\ UNCHANGED <<users, env, clubRequests, clubs, eventRequests, events,
                   ticketBookings, feed>>

-----------------------------------------------------------------------------
(* posterController.updatePoster -- PUT /api/posters/:id *)

\* let seatsLeft = poster.seatsLeft;
\* if (seats && seats !== poster.seats) { ...; if (seatsLeft < 0) seatsLeft = 0; }
NewSeatsLeft(poster, seats) ==
    IF Truthy(seats) /\ seats # poster.seats
    THEN LET seatsDifference == seats - poster.seats
             seatsLeft == poster.seatsLeft + seatsDifference
         IN  IF seatsLeft < 0 THEN 0 ELSE seatsLeft
    ELSE poster.seatsLeft

\* seats: seats || poster.seats
NewSeats(poster, seats) == IF Truthy(seats) THEN seats ELSE poster.seats

\* router.put('/:id', authenticate, authorize(['head_admin']), updatePoster)
UpdatePosterBegin(h, t, posterId, seats) ==
    /\ Free(h)
    /\ IF Authorized(t, {"head_admin"})
       THEN Start(h, "updatePoster", t, posterId, seats, "", "up_select")
       ELSE Refuse(h)
    /\ UNCHANGED <<tables, env>>

UpdatePosterSelect(h) ==
    /\ handlers[h].pc = "up_select"
    /\ LET posterId == handlers[h].id IN
       IF posterId \notin DOMAIN posters
       THEN Respond(h, 404, "Poster not found")
       ELSE IF handlers[h].role # "head_admin" \/ posters[posterId].headId # handlers[h].uid
       THEN Respond(h, 403, "Unauthorized access")
       ELSE handlers' = [handlers EXCEPT ![h].pc = "up_update",
                                         ![h].po = posters[posterId]]
    /\ UNCHANGED <<tables, env>>

UpdatePosterUpdate(h) ==
    /\ handlers[h].pc = "up_update"
    /\ LET set == [seats |-> NewSeats(handlers[h].po, handlers[h].n),
                   seatsLeft |-> NewSeatsLeft(handlers[h].po, handlers[h].n)]
       IN  posters' = Update(posters, handlers[h].id, set)
    /\ Respond(h, 200, "Poster updated successfully")
    /\ UNCHANGED <<users, env, clubRequests, clubs, eventRequests, events,
                   ticketBookings, autoinc, feed>>

-----------------------------------------------------------------------------
(* ticketController.bookTicket -- POST /api/tickets *)

\* a seat check that only asks whether the poster has any seat left
SomeSeatsLeft(poster, numberOfPersons) == poster.seatsLeft > 0

\* if (poster.seatsLeft < numberOfPersons) return 400
EnoughSeats(poster, numberOfPersons) == ~(poster.seatsLeft < numberOfPersons)

\* seatsLeft: poster.seatsLeft - numberOfPersons
SeatsAfterBooking(poster, numberOfPersons) == poster.seatsLeft - numberOfPersons

\* router.post('/', authenticate, upload.single('paymentProof'), bookTicket)
\* and the handler's `if (!paymentProof) return 400`
\* (paymentProof is read from req.body; req.file is never looked at)
BookTicketBegin(h, t, posterId, numberOfPersons, paymentProof, file) ==
    /\ Free(h)
    /\ file => uploads.last < MaxFiles
    /\ uploads' = Uploaded(file)
    /\ IF paymentProof
       THEN StartWithFile(h, "bookTicket", t, posterId, numberOfPersons, "",
                          "bt_select", file)
       ELSE handlers' = [handlers EXCEPT ![h] =
                            [Idle EXCEPT !.op = "bookTicket", !.pc = "done", !.code = 400,
                                         !.msg = "Payment proof is required"]]
    /\ UNCHANGED <<tables, envOfUpload>>

\* const poster = await db.select().from(posters)...; the 404 and 400 returns
BookTicketSelect(h) ==
    /\ handlers[h].pc = "bt_select"
    /\ LET posterId == handlers[h].id IN
       IF posterId \notin DOMAIN posters
       THEN Respond(h, 404, "Poster not found")
       ELSE IF ~EnoughSeats(posters[posterId], handlers[h].n)
       THEN Respond(h, 400, "Not enough seats available")
       ELSE handlers' = [handlers EXCEPT ![h].pc = "bt_insert",
                                         ![h].po = posters[posterId]]
    /\ UNCHANGED <<tables, env>>

\* await db.insert(ticketBookings).values({ ..., status: 'pending' }).run()
BookTicketInsert(h) ==
    /\ handlers[h].pc = "bt_insert"
    /\ ticketBookings' = Insert(ticketBookings, autoinc.ticketBookings,
                                [posterId |-> handlers[h].id,
                                 userId |-> handlers[h].uid,
                                 numberOfPersons |-> handlers[h].n,
                                 status |-> "pending"])
    /\ autoinc' = [autoinc EXCEPT !.ticketBookings = @ + 1]
    /\ Goto(h, "bt_update")
    /\ UNCHANGED <<users, env, clubRequests, clubs, eventRequests, events,
                   posters, feed>>

\* await db.update(posters).set({ seatsLeft: poster.seatsLeft - numberOfPersons })
BookTicketUpdate(h) ==
    /\ handlers[h].pc = "bt_update"
    /\ LET set == [seatsLeft |-> SeatsAfterBooking(handlers[h].po, handlers[h].n)]
       IN  posters' = Update(posters, handlers[h].id, set)
    /\ Respond(h, 201, "Ticket booked successfully")
    /\ UNCHANGED <<users, env, clubRequests, clubs, eventRequests, events,
                   ticketBookings, autoinc, feed>>

-----------------------------------------------------------------------------
(* ticketController.approveTicket -- PUT /api/tickets/:id/approve *)

\* an ownership check that lets every head admin through
AnyHeadAdmin(poster, headId) == TRUE

\* if (poster.headId !== headId) return 403
OwnsPoster(poster, headId) == poster.headId = headId

\* a status check that only stops what was approved
NotApproved(row) == row.status # "approved"

\* a status check that only stops what was rejected
NotRejected(row) == row.status # "rejected"

\* if (ticketBooking.status !== 'pending') return 400, and the same check of
\* request.status in the club and event request controllers
IsPending(row) == row.status = "pending"

\* router.put('/:id/approve', authenticate, authorize(['head_admin']), approveTicket)
\* and the handler's `if (req.user.role !== 'head_admin') return 403`
ApproveTicketBegin(h, t, ticketId) ==
    /\ Free(h)
    /\ IF Authorized(t, {"head_admin"})
       THEN Start(h, "approveTicket", t, ticketId, 0, "", "at_selectTicket")
       ELSE Refuse(h)
    /\ UNCHANGED <<tables, env>>

\* const ticketBooking = await db.select().from(ticketBookings)...
ApproveTicketSelectTicket(h) ==
    /\ handlers[h].pc = "at_selectTicket"
    /\ IF handlers[h].id \notin DOMAIN ticketBookings
       THEN Respond(h, 404, "Ticket booking not found")
       ELSE handlers' = [handlers EXCEPT ![h].pc = "at_selectPoster",
                                         ![h].tk = ticketBookings[handlers[h].id]]
    /\ UNCHANGED <<tables, env>>

\* const poster = await db.select().from(posters)...; the 404, 403, 400 returns
ApproveTicketSelectPoster(h) ==
    /\ handlers[h].pc = "at_selectPoster"
    /\ LET posterId == handlers[h].tk.posterId IN
       IF posterId \notin DOMAIN posters
       THEN Respond(h, 404, "Associated poster not found")
       ELSE IF ~OwnsPoster(posters[posterId], handlers[h].uid)
       THEN Respond(h, 403, "You can only approve tickets for your own events")
       ELSE IF ~IsPending(handlers[h].tk)
       THEN Respond(h, 400, "Ticket already " \o handlers[h].tk.status)
       ELSE handlers' = [handlers EXCEPT ![h].pc = "at_update",
                                         ![h].po = posters[posterId]]
    /\ UNCHANGED <<tables, env>>

\* await db.update(ticketBookings).set({ status: 'approved' })...
ApproveTicketUpdate(h) ==
    /\ handlers[h].pc = "at_update"
    /\ LET set == [status |-> "approved"]
       IN  ticketBookings' = Update(ticketBookings, handlers[h].id, set)
    /\ Respond(h, 200, "Ticket booking approved")
    /\ UNCHANGED <<users, env, clubRequests, clubs, eventRequests, events,
                   posters, autoinc, feed>>

-----------------------------------------------------------------------------
(* ticketController.rejectTicket -- PUT /api/tickets/:id/reject *)

\* a restore that is cut at the poster's current capacity
SeatsAfterRejectClamped(poster, ticketBooking) ==
    IF poster.seatsLeft + ticketBooking.numberOfPersons > poster.seats
    THEN poster.seats
    ELSE poster.seatsLeft + ticketBooking.numberOfPersons

\* seatsLeft: poster.seatsLeft + ticketBooking.numberOfPersons
SeatsAfterReject(poster, ticketBooking) ==
    poster.seatsLeft + ticketBooking.numberOfPersons

RejectTicketBegin(h, t, ticketId) ==
    /\ Free(h)
    /\ IF Authorized(t, {"head_admin"})
       THEN Start(h, "rejectTicket", t, ticketId, 0, "", "rt_selectTicket")
       ELSE Refuse(h)
    /\ UNCHANGED <<tables, env>>

RejectTicketSelectTicket(h) ==
    /\ handlers[h].pc = "rt_selectTicket"
    /\ IF handlers[h].id \notin DOMAIN ticketBookings
       THEN Respond(h, 404, "Ticket booking not found")
       ELSE handlers' = [handlers EXCEPT ![h].pc = "rt_selectPoster",
                                         ![h].tk = ticketBookings[handlers[h].id]]
    /\ UNCHANGED <<tables, env>>

RejectTicketSelectPoster(h) ==
    /\ handlers[h].pc = "rt_selectPoster"
    /\ LET posterId == handlers[h].tk.posterId IN
       IF posterId \notin DOMAIN posters
       THEN Respond(h, 404, "Associated poster not found")
       ELSE IF ~OwnsPoster(posters[posterId], handlers[h].uid)
       THEN Respond(h, 403, "You can only reject tickets for your own events")
       ELSE IF ~IsPending(handlers[h].tk)
       THEN Respond(h, 400, "Ticket already " \o handlers[h].tk.status)
       ELSE handlers' = [handlers EXCEPT ![h].pc = "rt_updatePoster",
                                         ![h].po = posters[posterId]]
    /\ UNCHANGED <<tables, env>>

\* await db.update(posters).set({ seatsLeft: poster.seatsLeft + numberOfPersons })
RejectTicketUpdatePoster(h) ==
    /\ handlers[h].pc = "rt_updatePoster"
    /\ LET set == [seatsLeft |-> SeatsAfterReject(handlers[h].po, handlers[h].tk)]
       IN  posters' = Update(posters, handlers[h].tk.posterId, set)
    /\ Goto(h, "rt_updateTicket")
    /\ UNCHANGED <<users, env, clubRequests, clubs, eventRequests, events,
                   ticketBookings, autoinc, feed>>

\* await db.update(ticketBookings).set({ status: 'rejected' })...
RejectTicketUpdateTicket(h) ==
    /\ handlers[h].pc = "rt_updateTicket"
    /\ LET set == [status |-> "rejected"]
       IN  ticketBookings' = Update(ticketBookings, handlers[h].id, set)
    /\ Respond(h, 200, "Ticket booking rejected and seats restored")
    /\ UNCHANGED <<users, env, clubRequests, clubs, eventRequests, events,
                   posters, autoinc, feed>>

-----------------------------------------------------------------------------
(* authController.login -- POST /api/auth/login *)

\* jwt.sign({ id: user.id, email: user.email, role: user.role }, ...): the
\* token records the role the user has when it is issued
Login(u) ==
    /\ [id |-> u, role |-> users[u].role] \notin tokens
    /\ tokens' = tokens \cup {[id |-> u, role |-> users[u].role]}
    /\ UNCHANGED <<tables, handlers, faults, verificationCodes, uploads, now>>

-----------------------------------------------------------------------------
(* clubRequestController.createClubRequest -- POST /api/club-requests *)

\* router.post('/', authenticate, createClubRequest): any authenticated caller
CreateClubRequestBegin(h, t, clubName) ==
    /\ Free(h)
    /\ RequestsCreated < MaxRequests
    /\ Start(h, "createClubRequest", t, 0, 0, clubName, "ccr_select")
    /\ UNCHANGED <<tables, env>>

\* const user = await db.select().from(users).where(eq(users.id, userId)).get()
CreateClubRequestSelect(h) ==
    /\ handlers[h].pc = "ccr_select"
    /\ IF handlers[h].uid \in DOMAIN users
       THEN Goto(h, "ccr_insert")
       ELSE Respond(h, 500, "Server error")
    /\ UNCHANGED <<tables, env>>

\* await db.insert(clubRequests).values({ ..., status: 'pending' }).run()
CreateClubRequestInsert(h) ==
    /\ handlers[h].pc = "ccr_insert"
    /\ clubRequests' = Insert(clubRequests, autoinc.clubRequests,
                              [headId |-> handlers[h].uid,
                               clubName |-> handlers[h].name,
                               status |-> "pending"])
    /\ autoinc' = [autoinc EXCEPT !.clubRequests = @ + 1]
    /\ Respond(h, 201, "Club request submitted successfully")
    /\ UNCHANGED <<users, env, clubs, eventRequests, events, posters,
                   ticketBookings, feed>>

-----------------------------------------------------------------------------
(* clubRequestController.approveClubRequest -- PUT /api/club-requests/:id/approve *)

\* clubs.name is text('name').notNull().unique(): the insert of a second club
\* of the same name throws
NameTaken(name) == \E c \in DOMAIN clubs : clubs[c].name = name

ApproveClubRequestBegin(h, t, requestId) ==
    /\ Free(h)
    /\ IF Authorized(t, {"super_admin"})
       THEN Start(h, "approveClubRequest", t, requestId, 0, "", "acr_select")
       ELSE Refuse(h)
    /\ UNCHANGED <<tables, env>>

\* const request = await db.select().from(clubRequests)...; the 404, 400 returns
ApproveClubRequestSelect(h) ==
    /\ handlers[h].pc = "acr_select"
    /\ IF handlers[h].id \notin DOMAIN clubRequests
       THEN Respond(h, 404, "Club request not found")
       ELSE IF ~IsPending(clubRequests[handlers[h].id])
       THEN Respond(h, 400, "Request already " \o clubRequests[handlers[h].id].status)
       ELSE handlers' = [handlers EXCEPT ![h].pc = "acr_updateRequest",
                                         ![h].rq = clubRequests[handlers[h].id]]
    /\ UNCHANGED <<tables, env>>

\* await db.update(clubRequests).set({ status: 'approved' })...
ApproveClubRequestUpdateRequest(h) ==
    /\ handlers[h].pc = "acr_updateRequest"
    /\ LET set == [status |-> "approved"]
       IN  clubRequests' = Update(clubRequests, handlers[h].id, set)
    /\ Goto(h, "acr_insertClub")
    /\ UNCHANGED <<users, env, clubs, eventRequests, events, posters,
                   ticketBookings, autoinc, feed>>

\* a club row that loses the request's club name
ClubUnnamed(request) == [name |-> "", headId |-> request.headId]

\* .values({ name: request.clubName, headId: request.headId, ... })
ClubOfRequest(request) == [name |-> request.clubName, headId |-> request.headId]

\* await db.insert(clubs).values({ name: request.clubName, headId: request.headId })
\* a UNIQUE violation is thrown into the catch block: 500, nothing undone
ApproveClubRequestInsertClub(h) ==
    /\ handlers[h].pc = "acr_insertClub"
    /\ IF NameTaken(handlers[h].rq.clubName)
       THEN /\ Respond(h, 500, "Server error")
            /\ UNCHANGED <<clubs, autoinc, feed>>
       ELSE /\ clubs' = Insert(clubs, autoinc.clubs, ClubOfRequest(handlers[h].rq))
            /\ autoinc' = [autoinc EXCEPT !.clubs = @ + 1]
            /\ Goto(h, "acr_updateUser")
    /\ UNCHANGED <<users, env, clubRequests, eventRequests, events, posters,
                   ticketBookings, feed>>

\* await db.update(users).set({ role: 'head_admin' }).where(eq(users.id, request.headId))
ApproveClubRequestUpdateUser(h) ==
    /\ handlers[h].pc = "acr_updateUser"
    /\ LET set == [role |-> "head_admin"]
       IN  users' = Update(users, handlers[h].rq.headId, set)
    /\ Respond(h, 200, "Club request approved and club created successfully")
    /\ UNCHANGED <<env, clubRequests, clubs, eventRequests, events, posters,
                   ticketBookings, autoinc, feed>>

-----------------------------------------------------------------------------
(* clubRequestController.rejectClubRequest -- PUT /api/club-requests/:id/reject *)

RejectClubRequestBegin(h, t, requestId) ==
    /\ Free(h)
    /\ IF Authorized(t, {"super_admin"})
       THEN Start(h, "rejectClubRequest", t, requestId, 0, "", "rcr_select")
       ELSE Refuse(h)
    /\ UNCHANGED <<tables, env>>

RejectClubRequestSelect(h) ==
    /\ handlers[h].pc = "rcr_select"
    /\ IF handlers[h].id \notin DOMAIN clubRequests
       THEN Respond(h, 404, "Club request not found")
       ELSE IF ~IsPending(clubRequests[handlers[h].id])
       THEN Respond(h, 400, "Request already " \o clubRequests[handlers[h].id].status)
       ELSE handlers' = [handlers EXCEPT ![h].pc = "rcr_update",
                                         ![h].rq = clubRequests[handlers[h].id]]
    /\ UNCHANGED <<tables, env>>

\* await db.update(clubRequests).set({ status: 'rejected' })...
RejectClubRequestUpdate(h) ==
    /\ handlers[h].pc = "rcr_update"
    /\ LET set == [status |-> "rejected"]
       IN  clubRequests' = Update(clubRequests, handlers[h].id, set)
    /\ Respond(h, 200, "Club request rejected")
    /\ UNCHANGED <<users, env, clubs, eventRequests, events, posters,
                   ticketBookings, autoinc, feed>>

-----------------------------------------------------------------------------
(* eventRequestController.createEventRequest -- POST /api/event-requests *)

\* db.select().from(clubs).where(eq(clubs.headId, userId)).get(): the first
\* club of that head in rowid order, 0 when there is none
ClubOfHead(userId) ==
    LET own == {c \in DOMAIN clubs : clubs[c].headId = userId}
    IN  IF own = {} THEN 0 ELSE CHOOSE c \in own : \A d \in own : c <= d

\* router.post('/', authenticate, authorize(['head_admin']), upload.single('image'), ...)
\* authorize answers before upload.single runs: a refused request stores no file
CreateEventRequestBegin(h, t, eventName, file) ==
    /\ Free(h)
    /\ RequestsCreated < MaxRequests
    /\ file => uploads.last < MaxFiles
    /\ IF Authorized(t, {"head_admin"})
       THEN /\ StartWithFile(h, "createEventRequest", t, 0, 0, eventName,
                             "cer_select", file)
            /\ uploads' = Uploaded(file)
       ELSE /\ Refuse(h)
            /\ UNCHANGED uploads
    /\ UNCHANGED <<tables, envOfUpload>>

\* const club = await db.select().from(clubs)...; the 404 return, which
\* deletes the uploaded file
CreateEventRequestSelect(h) ==
    /\ handlers[h].pc = "cer_select"
    /\ IF ClubOfHead(handlers[h].uid) = 0
       THEN /\ Respond(h, 404, "You do not have a club")
            /\ uploads' = DeleteFile(handlers[h].file)
       ELSE /\ handlers' = [handlers EXCEPT ![h].pc = "cer_insert",
                               ![h].rq = [clubId |-> ClubOfHead(handlers[h].uid),
                                          headId |-> handlers[h].uid,
                                          eventName |-> handlers[h].name,
                                          image |-> handlers[h].file,
                                          status |-> "pending"]]
            /\ UNCHANGED uploads
    /\ UNCHANGED <<tables, envOfUpload>>

\* await db.insert(eventRequests).values({ clubId: club.id, ..., status: 'pending' })
CreateEventRequestInsert(h) ==
    /\ handlers[h].pc = "cer_insert"
    /\ eventRequests' = Insert(eventRequests, autoinc.eventRequests, handlers[h].rq)
    /\ autoinc' = [autoinc EXCEPT !.eventRequests = @ + 1]
    /\ Respond(h, 201, "Event request submitted successfully")
    /\ UNCHANGED <<users, env, clubRequests, clubs, events, posters,
                   ticketBookings, feed>>

-----------------------------------------------------------------------------
(* eventRequestController.approveEventRequest -- PUT /api/event-requests/:id/approve *)

ApproveEventRequestBegin(h, t, requestId) ==
    /\ Free(h)
    /\ IF Authorized(t, {"super_admin"})
       THEN Start(h, "approveEventRequest", t, requestId, 0, "", "aer_select")
       ELSE Refuse(h)
    /\ UNCHANGED <<tables, env>>

ApproveEventRequestSelect(h) ==
    /\ handlers[h].pc = "aer_select"
    /\ IF handlers[h].id \notin DOMAIN eventRequests
       THEN Respond(h, 404, "Event request not found")
       ELSE IF ~IsPending(eventRequests[handlers[h].id])
       THEN Respond(h, 400, "Request already " \o eventRequests[handlers[h].id].status)
       ELSE handlers' = [handlers EXCEPT ![h].pc = "aer_updateRequest",
                                         ![h].rq = eventRequests[handlers[h].id]]
    /\ UNCHANGED <<tables, env>>

\* await db.update(eventRequests).set({ status: 'approved' })...
ApproveEventRequestUpdateRequest(h) ==
    /\ handlers[h].pc = "aer_updateRequest"
    /\ LET set == [status |-> "approved"]
       IN  eventRequests' = Update(eventRequests, handlers[h].id, set)
    /\ Goto(h, "aer_insertEvent")
    /\ UNCHANGED <<users, env, clubRequests, clubs, events, posters,
                   ticketBookings, autoinc, feed>>

\* an event row that loses the request's club
EventOfNoClub(request) ==
    [clubId |-> 0, headId |-> request.headId, eventName |-> request.eventName]

\* .values({ clubId: request.clubId, headId: request.headId, eventName: ... })
EventOfRequest(request) ==
    [clubId |-> request.clubId, headId |-> request.headId,
     eventName |-> request.eventName]

\* await db.insert(events).values({ clubId: request.clubId, headId: request.headId, ... })
ApproveEventRequestInsertEvent(h) ==
    /\ handlers[h].pc = "aer_insertEvent"
    /\ events' = Insert(events, autoinc.events, EventOfRequest(handlers[h].rq))
    /\ autoinc' = [autoinc EXCEPT !.events = @ + 1]
    /\ Respond(h, 200, "Event request approved and event created successfully")
    /\ UNCHANGED <<users, env, clubRequests, clubs, eventRequests, posters,
                   ticketBookings, feed>>

-----------------------------------------------------------------------------
(* eventRequestController.rejectEventRequest -- PUT /api/event-requests/:id/reject *)

RejectEventRequestBegin(h, t, requestId) ==
    /\ Free(h)
    /\ IF Authorized(t, {"super_admin"})
       THEN Start(h, "rejectEventRequest", t, requestId, 0, "", "rer_select")
       ELSE Refuse(h)
    /\ UNCHANGED <<tables, env>>

RejectEventRequestSelect(h) ==
    /\ handlers[h].pc = "rer_select"
    /\ IF handlers[h].id \notin DOMAIN eventRequests
       THEN Respond(h, 404, "Event request not found")
       ELSE IF ~IsPending(eventRequests[handlers[h].id])
       THEN Respond(h, 400, "Request already " \o eventRequests[handlers[h].id].status)
       ELSE handlers' = [handlers EXCEPT ![h].pc = "rer_update",
                                         ![h].rq = eventRequests[handlers[h].id]]
    /\ UNCHANGED <<tables, env>>

\* await db.update(eventRequests).set({ status: 'rejected' })...
RejectEventRequestUpdate(h) ==
    /\ handlers[h].pc = "rer_update"
    /\ LET set == [status |-> "rejected"]
       IN  eventRequests' = Update(eventRequests, handlers[h].id, set)
    /\ Respond(h, 200, "Event request rejected")
    /\ UNCHANGED <<users, env, clubRequests, clubs, events, posters,
                   ticketBookings, autoinc, feed>>

-----------------------------------------------------------------------------
(* authController.createPost -- POST /api/posts *)

\* router.post('/', authenticate, upload.single('image'), createPost)
\* let clubId = null; only a head_admin token makes the handler look for a club
\* const image = req.file ? getFileUrl(req.file.filename) : null
CreatePostBegin(h, t, file) ==
    /\ Free(h)
    /\ autoinc.posts < MaxPosts
    /\ file => uploads.last < MaxFiles
    /\ uploads' = Uploaded(file)
    /\ handlers' = [handlers EXCEPT ![h] =
                       [Idle EXCEPT !.op = "createPost", !.uid = t.id, !.role = t.role,
                                    !.pc = IF t.role = "head_admin"
                                           THEN "cpo_selectClub" ELSE "cpo_insert",
                                    !.file = FileName(file),
                                    !.ps = [NoPost EXCEPT !.userId = t.id,
                                                          !.image = FileName(file)]]]
    /\ UNCHANGED <<tables, envOfUpload>>

\* const club = await db.select().from(clubs).where(eq(clubs.headId, userId)).get()
CreatePostSelectClub(h) ==
    /\ handlers[h].pc = "cpo_selectClub"
    /\ handlers' = [handlers EXCEPT ![h].pc = "cpo_insert",
                                    ![h].ps.clubId = ClubOfHead(handlers[h].uid)]
    /\ UNCHANGED <<tables, env>>

\* await db.insert(posts).values({ clubId, userId, ..., likes: 0 }).run()
CreatePostInsert(h) ==
    /\ handlers[h].pc = "cpo_insert"
    /\ posts' = Insert(posts, autoinc.posts, handlers[h].ps)
    /\ autoinc' = [autoinc EXCEPT !.posts = @ + 1]
    /\ Respond(h, 201, "Post created successfully")
    /\ UNCHANGED <<users, env, clubRequests, clubs, eventRequests, events, posters,
                   ticketBookings, postLikes>>

-----------------------------------------------------------------------------
(* authController.toggleLikePost -- POST /api/posts/:id/like *)

\* db.delete(t).where(...).run(): the rows of `gone` leave the table
Delete(table, gone) == [i \in DOMAIN table \ gone |-> table[i]]

\* the post_likes rows where postId and userId are the given ones
LikesOf(postId, userId) ==
    {l \in DOMAIN postLikes :
        postLikes[l].postId = postId /\ postLikes[l].userId = userId}

\* a like that leaves the counter where it was
LikesKept(post) == post.likes

\* likes: post.likes + 1
LikesAfterLike(post) == post.likes + 1

\* likes: post.likes - 1
LikesAfterUnlike(post) == post.likes - 1

\* router.post('/:id/like', authenticate, toggleLikePost)
ToggleLikePostBegin(h, t, postId) ==
    /\ Free(h)
    /\ autoinc.postLikes < MaxLikes
    /\ Start(h, "toggleLikePost", t, postId, 0, "", "tl_selectPost")
    /\ UNCHANGED <<tables, env>>

\* const post = await db.select().from(posts)...get(); the 404 return
ToggleLikePostSelectPost(h) ==
    /\ handlers[h].pc = "tl_selectPost"
    /\ IF handlers[h].id \notin DOMAIN posts
       THEN Respond(h, 404, "Post not found")
       ELSE handlers' = [handlers EXCEPT ![h].pc = "tl_selectLike",
                                         ![h].ps = posts[handlers[h].id]]
    /\ UNCHANGED <<tables, env>>

\* const existingLike = await db.select().from(postLikes).where(and(...)).get()
ToggleLikePostSelectLike(h) ==
    /\ handlers[h].pc = "tl_selectLike"
    /\ IF LikesOf(handlers[h].id, handlers[h].uid) # {}
       THEN Goto(h, "tl_deleteLike")
       ELSE Goto(h, "tl_insertLike")
    /\ UNCHANGED <<tables, env>>

\* await db.delete(postLikes).where(and(eq(postId), eq(userId))).run()
ToggleLikePostDeleteLike(h) ==
    /\ handlers[h].pc = "tl_deleteLike"
    /\ postLikes' = Delete(postLikes, LikesOf(handlers[h].id, handlers[h].uid))
    /\ Goto(h, "tl_decrement")
    /\ UNCHANGED <<users, env, clubRequests, clubs, eventRequests, events, posters,
                   ticketBookings, posts, autoinc>>

\* await db.update(posts).set({ likes: post.likes - 1 })...run(); 200
ToggleLikePostDecrement(h) ==
    /\ handlers[h].pc = "tl_decrement"
    /\ LET set == [likes |-> LikesAfterUnlike(handlers[h].ps)]
       IN  posts' = Update(posts, handlers[h].id, set)
    /\ Respond(h, 200, "Post unliked successfully")
    /\ UNCHANGED <<users, env, clubRequests, clubs, eventRequests, events, posters,
                   ticketBookings, postLikes, autoinc>>

\* await db.insert(postLikes).values({ postId, userId }).run()
ToggleLikePostInsertLike(h) ==
    /\ handlers[h].pc = "tl_insertLike"
    /\ postLikes' = Insert(postLikes, autoinc.postLikes,
                           [postId |-> handlers[h].id, userId |-> handlers[h].uid])
    /\ autoinc' = [autoinc EXCEPT !.postLikes = @ + 1]
    /\ Goto(h, "tl_increment")
    /\ UNCHANGED <<users, env, clubRequests, clubs, eventRequests, events, posters,
                   ticketBookings, posts>>

\* await db.update(posts).set({ likes: post.likes + 1 })...run(); 200
ToggleLikePostIncrement(h) ==
    /\ handlers[h].pc = "tl_increment"
    /\ LET set == [likes |-> LikesAfterLike(handlers[h].ps)]
       IN  posts' = Update(posts, handlers[h].id, set)
    /\ Respond(h, 200, "Post liked successfully")
    /\ UNCHANGED <<users, env, clubRequests, clubs, eventRequests, events, posters,
                   ticketBookings, postLikes, autoinc>>

-----------------------------------------------------------------------------
(* clubController.deleteClub -- DELETE /api/clubs/:id *)

\* a where clause that matches no row
NoRows(table, clubId) == {}

\* .where(eq(t.clubId, clubId)): the rows of a table that belong to the club
RowsOfClub(table, clubId) == {i \in DOMAIN table : table[i].clubId = clubId}

\* a where clause on the poster that matches no booking
NoBookings(posterId) == {}

\* .where(eq(ticketBookings.posterId, poster.id))
BookingsOfPoster(posterId) ==
    {k \in DOMAIN ticketBookings : ticketBookings[k].posterId = posterId}

\* .where(eq(postLikes.postId, post.id))
LikesOfPost(postId) == {l \in DOMAIN postLikes : postLikes[l].postId = postId}

\* for (const x of rows): the row the loop visits next, in rowid order
NextOf(todo) == CHOOSE i \in todo : \A j \in todo : i <= j

\* router.delete('/:id', authenticate, authorize(['super_admin']), deleteClub)
DeleteClubBegin(h, t, clubId) ==
    /\ Free(h)
    /\ IF Authorized(t, {"super_admin"})
       THEN Start(h, "deleteClub", t, clubId, 0, "", "dc_selectClub")
       ELSE Refuse(h)
    /\ UNCHANGED <<tables, env>>

\* const club = await db.select().from(clubs)...get(); the 404 return
DeleteClubSelectClub(h) ==
    /\ handlers[h].pc = "dc_selectClub"
    /\ IF handlers[h].id \notin DOMAIN clubs
       THEN Respond(h, 404, "Club not found")
       ELSE handlers' = [handlers EXCEPT ![h].pc = "dc_selectPosters",
                                         ![h].cl = clubs[handlers[h].id]]
    /\ UNCHANGED <<tables, env>>

\* const clubPosters = await db.select().from(posters).where(eq(clubId)).all()
DeleteClubSelectPosters(h) ==
    /\ handlers[h].pc = "dc_selectPosters"
    /\ LET clubPosters == RowsOfClub(posters, handlers[h].id) IN
       handlers' = [handlers EXCEPT ![h].todo = clubPosters,
                        ![h].pc = IF clubPosters = {} THEN "dc_selectPosts"
                                  ELSE "dc_deleteBookings"]
    /\ UNCHANGED <<tables, env>>

\* for (const poster of clubPosters) await db.delete(ticketBookings)...run()
DeleteClubDeleteBookings(h) ==
    /\ handlers[h].pc = "dc_deleteBookings"
    /\ LET poster == NextOf(handlers[h].todo)
           rest == handlers[h].todo \ {poster}
       IN  /\ ticketBookings' = Delete(ticketBookings, BookingsOfPoster(poster))
           /\ handlers' = [handlers EXCEPT ![h].todo = rest,
                               ![h].pc = IF rest = {} THEN "dc_selectPosts"
                                         ELSE "dc_deleteBookings"]
    /\ UNCHANGED <<users, env, clubRequests, clubs, eventRequests, events, posters,
                   feed, autoinc>>

\* const clubPosts = await db.select().from(posts).where(eq(clubId)).all()
DeleteClubSelectPosts(h) ==
    /\ handlers[h].pc = "dc_selectPosts"
    /\ LET clubPosts == RowsOfClub(posts, handlers[h].id) IN
       handlers' = [handlers EXCEPT ![h].todo = clubPosts,
                        ![h].pc = IF clubPosts = {} THEN "dc_deletePosts"
                                  ELSE "dc_deleteLikes"]
    /\ UNCHANGED <<tables, env>>

\* for (const post of clubPosts) await db.delete(postLikes)...run()
DeleteClubDeleteLikes(h) ==
    /\ handlers[h].pc = "dc_deleteLikes"
    /\ LET post == NextOf(handlers[h].todo)
           rest == handlers[h].todo \ {post}
       IN  /\ postLikes' = Delete(postLikes, LikesOfPost(post))
           /\ handlers' = [handlers EXCEPT ![h].todo = rest,
                               ![h].pc = IF rest = {} THEN "dc_deletePosts"
                                         ELSE "dc_deleteLikes"]
    /\ UNCHANGED <<users, env, clubRequests, clubs, eventRequests, events, posters,
                   ticketBookings, posts, autoinc>>

\* await db.delete(posts).where(eq(posts.clubId, clubId)).run()
DeleteClubDeletePosts(h) ==
    /\ handlers[h].pc = "dc_deletePosts"
    /\ posts' = Delete(posts, RowsOfClub(posts, handlers[h].id))
    /\ Goto(h, "dc_deletePosters")
    /\ UNCHANGED <<users, env, clubRequests, clubs, eventRequests, events, posters,
                   ticketBookings, postLikes, autoinc>>

\* await db.delete(posters).where(eq(posters.clubId, clubId)).run()
DeleteClubDeletePosters(h) ==
    /\ handlers[h].pc = "dc_deletePosters"
    /\ posters' = Delete(posters, RowsOfClub(posters, handlers[h].id))
    /\ Goto(h, "dc_deleteEvents")
    /\ UNCHANGED <<users, env, clubRequests, clubs, eventRequests, events,
                   ticketBookings, feed, autoinc>>

\* await db.delete(events).where(eq(events.clubId, clubId)).run()
DeleteClubDeleteEvents(h) ==
    /\ handlers[h].pc = "dc_deleteEvents"
    /\ events' = Delete(events, RowsOfClub(events, handlers[h].id))
    /\ Goto(h, "dc_deleteEventRequests")
    /\ UNCHANGED <<users, env, clubRequests, clubs, eventRequests, posters,
                   ticketBookings, feed, autoinc>>

\* await db.delete(eventRequests).where(eq(eventRequests.clubId, clubId)).run()
DeleteClubDeleteEventRequests(h) ==
    /\ handlers[h].pc = "dc_deleteEventRequests"
    /\ eventRequests' = Delete(eventRequests, RowsOfClub(eventRequests, handlers[h].id))
    /\ Goto(h, "dc_updateUser")
    /\ UNCHANGED <<users, env, clubRequests, clubs, events, posters,
                   ticketBookings, feed, autoinc>>

\* await db.update(users).set({ role: 'student' }).where(eq(users.id, club.headId))
DeleteClubUpdateUser(h) ==
    /\ handlers[h].pc = "dc_updateUser"
    /\ LET set == [role |-> "student"]
       IN  users' = Update(users, handlers[h].cl.headId, set)
    /\ Goto(h, "dc_deleteClub")
    /\ UNCHANGED <<env, clubRequests, clubs, eventRequests, events, posters,
                   ticketBookings, feed, autoinc>>

\* await db.delete(clubs).where(eq(clubs.id, clubId)).run(); 200
DeleteClubDeleteClub(h) ==
    /\ handlers[h].pc = "dc_deleteClub"
    /\ clubs' = Delete(clubs, {handlers[h].id})
    /\ Respond(h, 200, "Club deleted successfully and head admin role reset to student")
    /\ UNCHANGED <<users, env, clubRequests, eventRequests, events, posters,
                   ticketBookings, feed, autoinc>>

-----------------------------------------------------------------------------
(* userController.updateUserRole -- PUT /api/users/:id/role *)

\* router.put('/:id/role', authenticate, authorize(['super_admin']), updateUserRole)
\* if (!['student', 'head_admin', 'super_admin'].includes(role)) return 400
UpdateUserRoleBegin(h, t, userId, role) ==
    /\ Free(h)
    /\ IF ~Authorized(t, {"super_admin"})
       THEN Refuse(h)
       ELSE IF role \notin Roles
       THEN handlers' = [handlers EXCEPT ![h] =
                            [Idle EXCEPT !.op = "updateUserRole", !.pc = "done",
                                         !.code = 400, !.msg = "Invalid role"]]
       ELSE Start(h, "updateUserRole", t, userId, 0, role, "uur_select")
    /\ UNCHANGED <<tables, env>>

\* const user = await db.select().from(users)...get(); the 404 return
UpdateUserRoleSelect(h) ==
    /\ handlers[h].pc = "uur_select"
    /\ IF handlers[h].id \notin DOMAIN users
       THEN Respond(h, 404, "User not found")
       ELSE Goto(h, "uur_update")
    /\ UNCHANGED <<tables, env>>

\* await db.update(users).set({ role, ... }).where(eq(users.id, userId)).run(); 200
UpdateUserRoleUpdate(h) ==
    /\ handlers[h].pc = "uur_update"
    /\ LET set == [role |-> handlers[h].name]
       IN  users' = Update(users, handlers[h].id, set)
    /\ Respond(h, 200, "User role updated successfully")
    /\ UNCHANGED <<env, clubRequests, clubs, eventRequests, events, posters,
                   ticketBookings, feed, autoinc>>

-----------------------------------------------------------------------------
(* calendarController.getUserCalendar -- GET /api/calendar/events,
   calendarController.getCombinedCalendar -- GET /api/calendar *)

\* a where clause that forgets the status
AllTicketsOf(userId) ==
    {k \in DOMAIN ticketBookings : ticketBookings[k].userId = userId}

\* .where(and(eq(ticketBookings.userId, userId), eq(ticketBookings.status, 'approved')))
ApprovedTicketsOf(userId) ==
    {k \in DOMAIN ticketBookings :
        /\ ticketBookings[k].userId = userId
        /\ ticketBookings[k].status = "approved"}

\* .leftJoin(posters, ...): a booking without its poster comes back with
\* poster: null, and ticket.poster.eventTitle of the map throws
PosterMissing(rows) == \E k \in rows : ticketBookings[k].posterId \notin DOMAIN posters

\* both handlers read req.user.id, which authenticate has set
GetUserCalendarBegin(h, t) ==
    /\ Free(h)
    /\ Start(h, "getUserCalendar", t, 0, 0, "", "uc_select")
    /\ UNCHANGED <<tables, env>>

\* const approvedTickets = await db.select(...)...all(); the map; 200
GetUserCalendarSelect(h) ==
    /\ handlers[h].pc = "uc_select"
    /\ LET approvedTickets == ApprovedTicketsOf(handlers[h].uid) IN
       IF PosterMissing(approvedTickets)
       THEN Respond(h, 500, "Server error")
       ELSE handlers' = [handlers EXCEPT ![h] =
                            [Idle EXCEPT !.op = handlers[h].op, !.pc = "done",
                                         !.code = 200, !.out = approvedTickets]]
    /\ UNCHANGED <<tables, env>>

GetCombinedCalendarBegin(h, t) ==
    /\ Free(h)
    /\ Start(h, "getCombinedCalendar", t, 0, 0, "", "cc_selectTickets")
    /\ UNCHANGED <<tables, env>>

\* const approvedTickets = await db.select(...)...all(): the rows, and whether
\* one of them came back without its poster (n)
GetCombinedCalendarSelectTickets(h) ==
    /\ handlers[h].pc = "cc_selectTickets"
    /\ LET approvedTickets == ApprovedTicketsOf(handlers[h].uid) IN
       handlers' = [handlers EXCEPT ![h].pc = "cc_selectPersonal",
                        ![h].todo = approvedTickets,
                        ![h].n = IF PosterMissing(approvedTickets) THEN 1 ELSE 0]
    /\ UNCHANGED <<tables, env>>

\* const userPersonalEvents = await db.select().from(personalEvents)...all();
\* the two maps; 200 with the ticket entries of the rows read before
GetCombinedCalendarSelectPersonal(h) ==
    /\ handlers[h].pc = "cc_selectPersonal"
    /\ LET approvedTickets == handlers[h].todo IN
       IF handlers[h].n = 1
       THEN Respond(h, 500, "Server error")
       ELSE handlers' = [handlers EXCEPT ![h] =
                            [Idle EXCEPT !.op = handlers[h].op, !.pc = "done",
                                         !.code = 200, !.out = approvedTickets]]
    /\ UNCHANGED <<tables, env>>

-----------------------------------------------------------------------------
(* authController.register -- POST /api/auth/register *)

\* the addresses of a run
Emails == {"aru@kbtu.kz", "dan@kbtu.kz"}

\* what generateVerificationCode() can return
Codes == {"111111", "222222"}

\* expires: Date.now() + 10 * 60 * 1000
CodeExpiry(issued) == issued + 10 * 60 * 1000

\* .where(eq(users.email, email)): the user rows of that address
UsersOf(email) == {u \in DOMAIN users : users[u].email = email}

\* verificationCodes.set(email, { code, expires })
CodesSet(email, code) ==
    (email :> [code |-> code, expires |-> CodeExpiry(now)])
        @@ [e \in DOMAIN verificationCodes \ {email} |-> verificationCodes[e]]

\* verificationCodes.delete(email)
CodesDelete(email) ==
    [e \in DOMAIN verificationCodes \ {email} |-> verificationCodes[e]]

\* router.post('/register', register): no middleware, the body carries the email
RegisterBegin(h, email) ==
    /\ Free(h)
    /\ handlers' = [handlers EXCEPT ![h] =
                       [Idle EXCEPT !.op = "register", !.pc = "rg_select",
                                    !.name = email]]
    /\ UNCHANGED <<tables, env>>

\* const existingUser = await db.select().from(users)...get(); the 400 return
RegisterSelect(h) ==
    /\ handlers[h].pc = "rg_select"
    /\ IF UsersOf(handlers[h].name) # {}
       THEN Respond(h, 400, "Email already exists")
       ELSE Goto(h, "rg_genSalt")
    /\ UNCHANGED <<tables, env>>

\* const salt = await bcrypt.genSalt(10)
RegisterGenSalt(h) ==
    /\ handlers[h].pc = "rg_genSalt"
    /\ Goto(h, "rg_hash")
    /\ UNCHANGED <<tables, env>>

\* const hashedPassword = await bcrypt.hash(password, salt); then the code is
\* generated and stored, and sendEmail is called
RegisterHash(h) ==
    /\ handlers[h].pc = "rg_hash"
    /\ \E code \in Codes : verificationCodes' = CodesSet(handlers[h].name, code)
    /\ Goto(h, "rg_sendEmail")
    /\ UNCHANGED <<tables, tokens, faults, uploads, now>>

\* await sendEmail(email, subject, null, html): transporter.sendMail resolves,
\* or it rejects and sendEmail's catch throws the error again, into register's
\* catch block
RegisterSendEmail(h) ==
    /\ handlers[h].pc = "rg_sendEmail"
    /\ \E delivered \in BOOLEAN :
           IF delivered
           THEN Goto(h, "rg_insert")
           ELSE Respond(h, 500, "Server error")
    /\ UNCHANGED <<tables, env>>

\* await db.insert(users).values({ ..., role: 'student' }).run(); email is
\* unique(), isEmailVerified defaults to false
RegisterInsert(h) ==
    /\ handlers[h].pc = "rg_insert"
    /\ IF UsersOf(handlers[h].name) # {}
       THEN /\ Respond(h, 500, "Server error")
            /\ UNCHANGED <<users, autoinc>>
       ELSE /\ users' = Insert(users, autoinc.users,
                               [role |-> "student", email |-> handlers[h].name,
                                isEmailVerified |-> FALSE])
            /\ autoinc' = [autoinc EXCEPT !.users = @ + 1]
            /\ Goto(h, "rg_selectNew")
    /\ UNCHANGED <<env, clubRequests, clubs, eventRequests, events, posters,
                   ticketBookings, feed>>

\* const newUser = await db.select().from(users)...get(); jwt.sign; 201
RegisterSelectNew(h) ==
    /\ handlers[h].pc = "rg_selectNew"
    /\ LET newUser == CHOOSE u \in UsersOf(handlers[h].name) : TRUE IN
       /\ tokens' = tokens \cup {[id |-> newUser, role |-> users[newUser].role]}
       /\ handlers' = [handlers EXCEPT ![h] =
              [Idle EXCEPT !.op = "register", !.pc = "done", !.code = 201,
                           !.name = handlers[h].name,
                           !.msg = "User registered successfully. Please check your email for verification code."]]
    /\ UNCHANGED <<tables, faults, verificationCodes, uploads, now>>

-----------------------------------------------------------------------------
(* authController.verifyEmail -- POST /api/auth/verify-email *)

\* a code that never runs out
Unexpiring(verificationData) == FALSE

\* if (Date.now() > verificationData.expires)
Expired(verificationData) == now > verificationData.expires

\* the body's email and code, and the three 400 returns, which all come
\* before the first await
VerifyEmailBegin(h, email, code) ==
    /\ Free(h)
    /\ LET answer(status, message) ==
               [Idle EXCEPT !.op = "verifyEmail", !.pc = "done", !.name = email,
                            !.given = code, !.code = status, !.msg = message]
       IN  IF email \notin DOMAIN verificationCodes
           THEN /\ handlers' = [handlers EXCEPT ![h] =
                       answer(400, "No verification code found for this email")]
                /\ UNCHANGED verificationCodes
           ELSE IF Expired(verificationCodes[email])
           THEN /\ handlers' = [handlers EXCEPT ![h] =
                       answer(400, "Verification code has expired")]
                /\ verificationCodes' = CodesDelete(email)
           ELSE IF verificationCodes[email].code # code
           THEN /\ handlers' = [handlers EXCEPT ![h] =
                       answer(400, "Invalid verification code")]
                /\ UNCHANGED verificationCodes
           ELSE /\ handlers' = [handlers EXCEPT ![h] =
                       [Idle EXCEPT !.op = "verifyEmail", !.pc = "ve_update",
                                    !.name = email, !.given = code]]
                /\ UNCHANGED verificationCodes
    /\ UNCHANGED <<tables, tokens, faults, uploads, now>>

\* await db.update(users).set({ isEmailVerified: true }).where(eq(users.email, email));
\* verificationCodes.delete(email); 200
VerifyEmailUpdate(h) ==
    /\ handlers[h].pc = "ve_update"
    /\ users' = [u \in DOMAIN users |->
                    IF users[u].email = handlers[h].name
                    THEN [isEmailVerified |-> TRUE] @@ users[u]
                    ELSE users[u]]
    /\ verificationCodes' = CodesDelete(handlers[h].name)
    /\ handlers' = [handlers EXCEPT ![h] =
           [Idle EXCEPT !.op = "verifyEmail", !.pc = "done", !.code = 200,
                        !.name = handlers[h].name, !.given = handlers[h].given,
                        !.msg = "Email verified successfully"]]
    /\ UNCHANGED <<tokens, faults, uploads, now, clubRequests, clubs, eventRequests,
                   events, posters, ticketBookings, feed, autoinc>>

-----------------------------------------------------------------------------
(* The clock *)

\* time passes between two steps: Date.now() is later by `step` milliseconds
Tick(step, horizon) ==
    /\ now + step <= horizon
    /\ now' = now + step
    /\ UNCHANGED <<tables, handlers, tokens, faults, verificationCodes, uploads>>

-----------------------------------------------------------------------------
(* fileUploadService.cleanOldFiles -- setInterval(cleanOldFiles, 60 * 60 * 1000) *)

\* const fileAge = now - stats.mtime.getTime(); if (fileAge > 24 * 60 * 60 * 1000)
TooOld(mtime) == now - mtime > 24 * 60 * 60 * 1000

\* files.forEach(file => { ...; fs.unlinkSync(filepath) }): every file of the
\* directory that is too old is deleted, whoever refers to it
CleanOldFiles ==
    /\ uploads' = [uploads EXCEPT !.files =
                      [f \in {g \in DOMAIN uploads.files : ~TooOld(uploads.files[g])} |->
                          uploads.files[f]]]
    /\ UNCHANGED <<tables, handlers, tokens, faults, verificationCodes, now>>

-----------------------------------------------------------------------------
(* A store call that throws *)

\* every handler body is try { ... } catch (error) { return res.status(500)... }:
\* the db call the handler is waiting for throws, and nothing already written
\* is undone (no handler opens a transaction); the catch block of
\* createEventRequest and of createPost deletes the request's file
StoreFailure(h) ==
    /\ InFlight(h)
    /\ faults < MaxFaults
    /\ faults' = faults + 1
    /\ Respond(h, 500, "Server error")
    /\ uploads' = IF CatchDeletesFile(handlers[h].op)
                  THEN DeleteFile(handlers[h].file)
                  ELSE uploads
    /\ UNCHANGED <<tables, tokens, verificationCodes, now>>

-----------------------------------------------------------------------------
(* Initial states *)

\* the database after migration and seedAdmin, with NumUsers - 1 students
\* registered; every user holds the token of their registration or login
Init ==
    /\ users = [u \in UserIds |-> [role |-> IF u = 1 THEN "super_admin" ELSE "student"]]
    /\ tokens = {[id |-> u, role |-> users[u].role] : u \in UserIds}
    /\ clubRequests = EmptyTable
    /\ clubs = EmptyTable
    /\ eventRequests = EmptyTable
    /\ events = EmptyTable
    /\ posters = EmptyTable
    /\ ticketBookings = EmptyTable
    /\ posts = EmptyTable
    /\ postLikes = EmptyTable
    /\ autoinc = [clubRequests |-> 0, clubs |-> 0, eventRequests |-> 0, events |-> 0,
                  posters |-> 0, ticketBookings |-> 0, posts |-> 0, postLikes |-> 0,
                  users |-> NumUsers]
    /\ handlers = [h \in Handlers |-> Idle]
    /\ faults = 0
    /\ verificationCodes = EmptyTable
    /\ uploads = NoUploads
    /\ now = 0

\* a state the request pipeline reaches from Init (TLC reaches it under Spec
\* with MaxRequests == 3): users 2 and 3 each had a club request approved
\* (clubs 1 and 2), and user 2 had an event request approved (event 1 of
\* club 1)
TicketScenario ==
    /\ users = [u \in UserIds |->
                  [role |-> IF u = 1 THEN "super_admin"
                            ELSE IF u \in {2, 3} THEN "head_admin" ELSE "student"]]
    /\ clubRequests = (1 :> [headId |-> 2, clubName |-> "Chess", status |-> "approved"])
                   @@ (2 :> [headId |-> 3, clubName |-> "Robotics", status |-> "approved"])
    /\ clubs = (1 :> [name |-> "Chess", headId |-> 2])
            @@ (2 :> [name |-> "Robotics", headId |-> 3])
    /\ eventRequests = (1 :> [clubId |-> 1, headId |-> 2, eventName |-> "Open Day",
                              image |-> 0, status |-> "approved"])
    /\ events = (1 :> [clubId |-> 1, headId |-> 2, eventName |-> "Open Day"])

\* the ticket desk opens on that state: everybody has logged in again, and the
\* tokens of before the promotions have run out (expiresIn: '7d')
InitTickets ==
    /\ TicketScenario
    /\ tokens = {[id |-> u, role |-> users[u].role] : u \in UserIds}
    /\ posters = EmptyTable
    /\ ticketBookings = EmptyTable
    /\ posts = EmptyTable
    /\ postLikes = EmptyTable
    /\ autoinc = [clubRequests |-> 2, clubs |-> 2, eventRequests |-> 1, events |-> 1,
                  posters |-> 0, ticketBookings |-> 0, posts |-> 0, postLikes |-> 0,
                  users |-> NumUsers]
    /\ handlers = [h \in Handlers |-> Idle]
    /\ faults = 0
    /\ verificationCodes = EmptyTable
    /\ uploads = NoUploads
    /\ now = 0

\* a state the ticket desk reaches from InitTickets (TLC reaches it under
\* SpecBooking): user 2 has created poster 1 for event 1 with MaxSeats seats,
\* user 1 has booked one seat of it, and nobody has resolved the booking yet
PendingBooking ==
    /\ posters = (1 :> [eventId |-> 1, clubId |-> 1, headId |-> 2,
                        seats |-> MaxSeats, seatsLeft |-> MaxSeats - 1])
    /\ ticketBookings = (1 :> [posterId |-> 1, userId |-> 1, numberOfPersons |-> 1,
                               status |-> "pending"])
    /\ autoinc = [clubRequests |-> 2, clubs |-> 2, eventRequests |-> 1, events |-> 1,
                  posters |-> 1, ticketBookings |-> 1, posts |-> 0, postLikes |-> 0,
                  users |-> NumUsers]

InitResolve ==
    /\ TicketScenario
    /\ PendingBooking
    /\ tokens = {[id |-> u, role |-> users[u].role] : u \in UserIds}
    /\ posts = EmptyTable
    /\ postLikes = EmptyTable
    /\ handlers = [h \in Handlers |-> Idle]
    /\ faults = 0
    /\ verificationCodes = EmptyTable
    /\ uploads = NoUploads
    /\ now = 0

\* the database after migration and seedAdmin, before anybody has registered
InitAuth ==
    /\ users = (1 :> [role |-> "super_admin", email |-> "admin@gmail.com",
                      isEmailVerified |-> TRUE])
    /\ tokens = {}
    /\ clubRequests = EmptyTable
    /\ clubs = EmptyTable
    /\ eventRequests = EmptyTable
    /\ events = EmptyTable
    /\ posters = EmptyTable
    /\ ticketBookings = EmptyTable
    /\ posts = EmptyTable
    /\ postLikes = EmptyTable
    /\ autoinc = [clubRequests |-> 0, clubs |-> 0, eventRequests |-> 0, events |-> 0,
                  posters |-> 0, ticketBookings |-> 0, posts |-> 0, postLikes |-> 0,
                  users |-> 1]
    /\ handlers = [h \in Handlers |-> Idle]
    /\ faults = 0
    /\ verificationCodes = EmptyTable
    /\ uploads = NoUploads
    /\ now = 0

-----------------------------------------------------------------------------
(* Next-state relations *)

\* the ids a request names: those of the rows there are, and one of no row
ClubRequestIds == DOMAIN clubRequests \cup {autoinc.clubRequests + 1}

EventRequestIds == DOMAIN eventRequests \cup {autoinc.eventRequests + 1}

EventIds == DOMAIN events \cup {autoinc.events + 1}

PosterIds == DOMAIN posters \cup {autoinc.posters + 1}

TicketIds == DOMAIN ticketBookings \cup {autoinc.ticketBookings + 1}

\* the callers of bookTicket: the super admin and the head of club 1, two
\* users of whom one owns the posters and one does not
Bookers == {t \in tokens : t.id \in {1, 2}}

\* the steps of the handlers in flight
RequestSteps(h) ==
    \/ CreateClubRequestSelect(h)
    \/ CreateClubRequestInsert(h)
    \/ ApproveClubRequestSelect(h)
    \/ ApproveClubRequestUpdateRequest(h)
    \/ ApproveClubRequestInsertClub(h)
    \/ ApproveClubRequestUpdateUser(h)
    \/ RejectClubRequestSelect(h)
    \/ RejectClubRequestUpdate(h)
    \/ CreateEventRequestSelect(h)
    \/ CreateEventRequestInsert(h)
    \/ ApproveEventRequestSelect(h)
    \/ ApproveEventRequestUpdateRequest(h)
    \/ ApproveEventRequestInsertEvent(h)
    \/ RejectEventRequestSelect(h)
    \/ RejectEventRequestUpdate(h)

RequestBegins(h) ==
    \/ \E t \in tokens, name \in ClubNames : CreateClubRequestBegin(h, t, name)
    \/ \E t \in tokens, r \in ClubRequestIds : ApproveClubRequestBegin(h, t, r)
    \/ \E t \in tokens, r \in ClubRequestIds : RejectClubRequestBegin(h, t, r)
    \/ \E t \in tokens, name \in EventNames : CreateEventRequestBegin(h, t, name, FALSE)
    \/ \E t \in tokens, r \in EventRequestIds : ApproveEventRequestBegin(h, t, r)
    \/ \E t \in tokens, r \in EventRequestIds : RejectEventRequestBegin(h, t, r)

BookingSteps(h) ==
    \/ CreatePosterSelect(h)
    \/ CreatePosterInsert(h)
    \/ BookTicketSelect(h)
    \/ BookTicketInsert(h)
    \/ BookTicketUpdate(h)
    \/ ApproveTicketSelectTicket(h)
    \/ ApproveTicketSelectPoster(h)
    \/ ApproveTicketUpdate(h)
    \/ RejectTicketSelectTicket(h)
    \/ RejectTicketSelectPoster(h)
    \/ RejectTicketUpdatePoster(h)
    \/ RejectTicketUpdateTicket(h)

BookingBegins(h) ==
    \/ /\ RoomForRows
       /\ \E t \in tokens, e \in EventIds, s \in SeatsValues :
              CreatePosterBegin(h, t, e, s)
    \/ /\ RoomForRows
       /\ \E t \in Bookers, p \in PosterIds, n \in PersonsValues, proof \in BOOLEAN :
              BookTicketBegin(h, t, p, n, proof, FALSE)
    \/ \E t \in tokens, k \in TicketIds : ApproveTicketBegin(h, t, k)
    \/ \E t \in tokens, k \in TicketIds : RejectTicketBegin(h, t, k)

\* the request pipeline from the fresh database, one request at a time: only
\* handler slot 1 is used, so a request starts when the one before has responded
Next ==
    \/ \E u \in UserIds : Login(u)
    \/ RequestBegins(1)
    \/ RequestSteps(1)

Spec == Init /\ [][Next]_vars

\* posters and tickets, one request at a time, without updatePoster
NextBooking ==
    \/ BookingBegins(1)
    \/ BookingSteps(1)

SpecBooking == InitTickets /\ [][NextBooking]_vars

\* the same with store calls that may throw
NextBookingFaults ==
    \/ NextBooking
    \/ StoreFailure(1)

SpecBookingFaults == InitTickets /\ [][NextBookingFaults]_vars

\* posters and tickets, one request at a time, with updatePoster
NextPoster ==
    \/ NextBooking
    \/ \E t \in tokens, p \in PosterIds, s \in SeatsValues \cup {Undefined} :
           UpdatePosterBegin(1, t, p, s)
    \/ UpdatePosterSelect(1)
    \/ UpdatePosterUpdate(1)

SpecPoster == InitTickets /\ [][NextPoster]_vars

\* createPoster and bookTicket, the handlers of concurrent requests interleaving
\* at their awaits
NextRace ==
    \E h \in Handlers :
        \/ /\ RoomForRows
           /\ \E t \in tokens, e \in EventIds, s \in SeatsValues :
                  CreatePosterBegin(h, t, e, s)
        \/ CreatePosterSelect(h)
        \/ CreatePosterInsert(h)
        \/ /\ RoomForRows
           /\ \E t \in Bookers, p \in PosterIds, n \in PersonsValues, proof \in BOOLEAN :
                  BookTicketBegin(h, t, p, n, proof, FALSE)
        \/ BookTicketSelect(h)
        \/ BookTicketInsert(h)
        \/ BookTicketUpdate(h)

SpecRace == InitTickets /\ [][NextRace]_vars

PostIds == DOMAIN posts \cup {autoinc.posts + 1}

PostSteps(h) ==
    \/ CreatePostSelectClub(h)
    \/ CreatePostInsert(h)
    \/ ToggleLikePostSelectPost(h)
    \/ ToggleLikePostSelectLike(h)
    \/ ToggleLikePostDeleteLike(h)
    \/ ToggleLikePostDecrement(h)
    \/ ToggleLikePostInsertLike(h)
    \/ ToggleLikePostIncrement(h)

PostBegins(h) ==
    \/ \E t \in tokens : CreatePostBegin(h, t, FALSE)
    \/ \E t \in tokens, p \in PostIds : ToggleLikePostBegin(h, t, p)

\* posts and likes, one request at a time
NextLikes ==
    \/ PostBegins(1)
    \/ PostSteps(1)

SpecLikes == InitTickets /\ [][NextLikes]_vars

\* posts and likes, the handlers of concurrent requests interleaving at their
\* awaits
NextLikeRace ==
    \E h \in Handlers :
        \/ PostBegins(h)
        \/ PostSteps(h)

SpecLikeRace == InitTickets /\ [][NextLikeRace]_vars

ClubIds == DOMAIN clubs \cup {autoinc.clubs + 1}

DeleteClubSteps(h) ==
    \/ DeleteClubSelectClub(h)
    \/ DeleteClubSelectPosters(h)
    \/ DeleteClubDeleteBookings(h)
    \/ DeleteClubSelectPosts(h)
    \/ DeleteClubDeleteLikes(h)
    \/ DeleteClubDeletePosts(h)
    \/ DeleteClubDeletePosters(h)
    \/ DeleteClubDeleteEvents(h)
    \/ DeleteClubDeleteEventRequests(h)
    \/ DeleteClubUpdateUser(h)
    \/ DeleteClubDeleteClub(h)

\* the callers of a run of deleteClub's scenario: the head admins write the
\* posts, user 1 books and likes
HeadAdmins == {t \in tokens : t.role = "head_admin"}

Visitors == {t \in tokens : t.id = 1}

\* posters with bookings, posts with likes, and deleteClub, one request at a
\* time
NextDelete ==
    \/ /\ RoomForRows
       /\ \E t \in HeadAdmins, e \in EventIds : CreatePosterBegin(1, t, e, MaxSeats)
    \/ CreatePosterSelect(1)
    \/ CreatePosterInsert(1)
    \/ /\ RoomForRows
       /\ \E t \in Visitors, p \in PosterIds : BookTicketBegin(1, t, p, 1, TRUE, FALSE)
    \/ BookTicketSelect(1)
    \/ BookTicketInsert(1)
    \/ BookTicketUpdate(1)
    \/ \E t \in HeadAdmins : CreatePostBegin(1, t, FALSE)
    \/ \E t \in Visitors, p \in PostIds : ToggleLikePostBegin(1, t, p)
    \/ PostSteps(1)
    \/ \E t \in tokens, c \in ClubIds : DeleteClubBegin(1, t, c)
    \/ DeleteClubSteps(1)

SpecDelete == InitTickets /\ [][NextDelete]_vars

\* the role a body of updateUserRole carries: a role of the schema, or not
RolesInBody == Roles \cup {"teacher"}

\* club requests and role updates from the fresh database, one request at a
\* time, with the tokens of Init
NextRoles ==
    \/ \E t \in tokens, name \in ClubNames : CreateClubRequestBegin(1, t, name)
    \/ CreateClubRequestSelect(1)
    \/ CreateClubRequestInsert(1)
    \/ \E t \in tokens, r \in ClubRequestIds : ApproveClubRequestBegin(1, t, r)
    \/ ApproveClubRequestSelect(1)
    \/ ApproveClubRequestUpdateRequest(1)
    \/ ApproveClubRequestInsertClub(1)
    \/ ApproveClubRequestUpdateUser(1)
    \/ \E t \in tokens, u \in 1..(NumUsers + 1), role \in RolesInBody :
           UpdateUserRoleBegin(1, t, u, role)
    \/ UpdateUserRoleSelect(1)
    \/ UpdateUserRoleUpdate(1)

SpecRoles == Init /\ [][NextRoles]_vars

CalendarSteps(h) ==
    \/ GetUserCalendarSelect(h)
    \/ GetCombinedCalendarSelectTickets(h)
    \/ GetCombinedCalendarSelectPersonal(h)

\* posters, tickets and the two calendars, one request at a time
NextCalendar ==
    \/ NextBooking
    \/ \E t \in tokens : GetUserCalendarBegin(1, t)
    \/ \E t \in tokens : GetCombinedCalendarBegin(1, t)
    \/ CalendarSteps(1)

SpecCalendar == InitTickets /\ [][NextCalendar]_vars

\* ticks of five minutes
FiveMinutes == 5 * 60 * 1000

RegisterSteps(h) ==
    \/ RegisterSelect(h)
    \/ RegisterGenSalt(h)
    \/ RegisterHash(h)
    \/ RegisterSendEmail(h)
    \/ RegisterInsert(h)
    \/ RegisterSelectNew(h)

\* registration and email verification from the seeded database, one request
\* at a time, while time passes
NextAuth ==
    \/ \E email \in Emails : RegisterBegin(1, email)
    \/ RegisterSteps(1)
    \/ \E email \in Emails, code \in Codes : VerifyEmailBegin(1, email, code)
    \/ VerifyEmailUpdate(1)
    \/ Tick(FiveMinutes, MaxTicks * FiveMinutes)

SpecAuth == InitAuth /\ [][NextAuth]_vars

\* posters, bookings and posts whose requests may carry a file, one request
\* at a time, with store calls that may throw
NextUploads ==
    \/ /\ RoomForRows
       /\ \E t \in HeadAdmins, e \in EventIds : CreatePosterBegin(1, t, e, MaxSeats)
    \/ CreatePosterSelect(1)
    \/ CreatePosterInsert(1)
    \/ /\ RoomForRows
       /\ \E t \in Visitors, p \in PosterIds, proof \in BOOLEAN, file \in BOOLEAN :
              BookTicketBegin(1, t, p, 1, proof, file)
    \/ BookTicketSelect(1)
    \/ BookTicketInsert(1)
    \/ BookTicketUpdate(1)
    \/ \E t \in tokens, file \in BOOLEAN : CreatePostBegin(1, t, file)
    \/ CreatePostSelectClub(1)
    \/ CreatePostInsert(1)
    \/ StoreFailure(1)

SpecUploads == InitTickets /\ [][NextUploads]_vars

\* ticks of twelve hours
TwelveHours == 12 * 60 * 60 * 1000

\* posts with images and the hourly sweep, one request at a time, while time
\* passes
NextSweep ==
    \/ \E t \in tokens, file \in BOOLEAN : CreatePostBegin(1, t, file)
    \/ CreatePostSelectClub(1)
    \/ CreatePostInsert(1)
    \/ Tick(TwelveHours, MaxTicks * TwelveHours)
    \/ CleanOldFiles

SpecSweep == InitTickets /\ [][NextSweep]_vars

\* approveTicket and rejectTicket on the pending booking, the handlers of
\* concurrent requests interleaving at their awaits
NextResolveRace ==
    \E h \in Handlers :
        \/ \E t \in HeadAdmins, k \in DOMAIN ticketBookings : ApproveTicketBegin(h, t, k)
        \/ ApproveTicketSelectTicket(h)
        \/ ApproveTicketSelectPoster(h)
        \/ ApproveTicketUpdate(h)
        \/ \E t \in HeadAdmins, k \in DOMAIN ticketBookings : RejectTicketBegin(h, t, k)
        \/ RejectTicketSelectTicket(h)
        \/ RejectTicketSelectPoster(h)
        \/ RejectTicketUpdatePoster(h)
        \/ RejectTicketUpdateTicket(h)

SpecResolveRace == InitResolve /\ [][NextResolveRace]_vars

\* no approveTicket or rejectTicket is in flight: the resolve calls of this
\* run come one after the other
NoResolveInFlight ==
    \A g \in Handlers :
        ~(InFlight(g) /\ handlers[g].op \in {"approveTicket", "rejectTicket"})

\* no bookTicket is in flight: the bookings of this run come one after the other
NoBookingInFlight ==
    \A g \in Handlers : ~(InFlight(g) /\ handlers[g].op = "bookTicket")

\* one bookTicket at a time interleaving with one resolve call at a time, on
\* the poster that has a pending booking
NextSeatRace ==
    \E h \in Handlers :
        \/ /\ Cardinality(DOMAIN ticketBookings) < MaxRows
           /\ NoBookingInFlight
           /\ \E t \in Visitors, p \in DOMAIN posters :
                  BookTicketBegin(h, t, p, 1, TRUE, FALSE)
        \/ BookTicketSelect(h)
        \/ BookTicketInsert(h)
        \/ BookTicketUpdate(h)
        \/ /\ NoResolveInFlight
           /\ \E t \in HeadAdmins, k \in DOMAIN ticketBookings : ApproveTicketBegin(h, t, k)
        \/ ApproveTicketSelectTicket(h)
        \/ ApproveTicketSelectPoster(h)
        \/ ApproveTicketUpdate(h)
        \/ /\ NoResolveInFlight
           /\ \E t \in HeadAdmins, k \in DOMAIN ticketBookings : RejectTicketBegin(h, t, k)
        \/ RejectTicketSelectTicket(h)
        \/ RejectTicketSelectPoster(h)
        \/ RejectTicketUpdatePoster(h)
        \/ RejectTicketUpdateTicket(h)

SpecSeatRace == InitResolve /\ [][NextSeatRace]_vars

\* a state the request pipeline reaches from Init (TLC reaches it under
\* Spec): user 2 has asked for the club "Chess" and nobody has resolved the
\* request yet
PendingClubRequest ==
    /\ users = [u \in UserIds |-> [role |-> IF u = 1 THEN "super_admin" ELSE "student"]]
    /\ clubRequests = (1 :> [headId |-> 2, clubName |-> "Chess", status |-> "pending"])
    /\ clubs = EmptyTable
    /\ eventRequests = EmptyTable
    /\ events = EmptyTable
    /\ autoinc = [clubRequests |-> 1, clubs |-> 0, eventRequests |-> 0, events |-> 0,
                  posters |-> 0, ticketBookings |-> 0, posts |-> 0, postLikes |-> 0,
                  users |-> NumUsers]

\* a later state of that pipeline (TLC reaches it under Spec): the club
\* request was approved, user 2 heads club 1 and has asked for the event
\* "Open Day", which nobody has resolved yet
PendingEventRequest ==
    /\ users = [u \in UserIds |->
                  [role |-> IF u = 1 THEN "super_admin"
                            ELSE IF u = 2 THEN "head_admin" ELSE "student"]]
    /\ clubRequests = (1 :> [headId |-> 2, clubName |-> "Chess", status |-> "approved"])
    /\ clubs = (1 :> [name |-> "Chess", headId |-> 2])
    /\ eventRequests = (1 :> [clubId |-> 1, headId |-> 2, eventName |-> "Open Day",
                              image |-> 0, status |-> "pending"])
    /\ events = EmptyTable
    /\ autoinc = [clubRequests |-> 1, clubs |-> 1, eventRequests |-> 1, events |-> 0,
                  posters |-> 0, ticketBookings |-> 0, posts |-> 0, postLikes |-> 0,
                  users |-> NumUsers]

\* the super admin's desk opens on a pending request, with nothing else
\* going on
InitApprovals ==
    /\ PendingClubRequest \/ PendingEventRequest
    /\ tokens = {[id |-> u, role |-> users[u].role] : u \in UserIds}
    /\ posters = EmptyTable
    /\ ticketBookings = EmptyTable
    /\ posts = EmptyTable
    /\ postLikes = EmptyTable
    /\ handlers = [h \in Handlers |-> Idle]
    /\ faults = 0
    /\ verificationCodes = EmptyTable
    /\ uploads = NoUploads
    /\ now = 0

SuperAdmins == {t \in tokens : t.role = "super_admin"}

\* approve and reject calls of the super admin on the requests there are,
\* interleaving at their awaits
NextApprovals ==
    \E h \in Handlers :
        \/ \E t \in SuperAdmins, r \in DOMAIN clubRequests : ApproveClubRequestBegin(h, t, r)
        \/ ApproveClubRequestSelect(h)
        \/ ApproveClubRequestUpdateRequest(h)
        \/ ApproveClubRequestInsertClub(h)
        \/ ApproveClubRequestUpdateUser(h)
        \/ \E t \in SuperAdmins, r \in DOMAIN clubRequests : RejectClubRequestBegin(h, t, r)
        \/ RejectClubRequestSelect(h)
        \/ RejectClubRequestUpdate(h)
        \/ \E t \in SuperAdmins, r \in DOMAIN eventRequests : ApproveEventRequestBegin(h, t, r)
        \/ ApproveEventRequestSelect(h)
        \/ ApproveEventRequestUpdateRequest(h)
        \/ ApproveEventRequestInsertEvent(h)
        \/ \E t \in SuperAdmins, r \in DOMAIN eventRequests : RejectEventRequestBegin(h, t, r)
        \/ RejectEventRequestSelect(h)
        \/ RejectEventRequestUpdate(h)

SpecApprovals == InitApprovals /\ [][NextApprovals]_vars

-----------------------------------------------------------------------------
(* Vocabulary of the properties *)

RECURSIVE SumPersons(_)
SumPersons(S) ==
    IF S = {} THEN 0
    ELSE LET k == CHOOSE x \in S : TRUE
         IN  ticketBookings[k].numberOfPersons + SumPersons(S \ {k})

\* the persons holding a non-rejected booking of poster p
Booked(p) ==
    SumPersons({k \in DOMAIN ticketBookings :
                   /\ ticketBookings[k].posterId = p
                   /\ ticketBookings[k].status # "rejected"})

\* every booking is for at least one person
PersonsPositive == \A k \in DOMAIN ticketBookings : ticketBookings[k].numberOfPersons >= 1

Resolved(row) == row.status \in {"approved", "rejected"}

\* handler h takes a step
Steps(h) == handlers'[h] # handlers[h]

ResolvesTicket(h) == handlers[h].op \in {"approveTicket", "rejectTicket"}

-----------------------------------------------------------------------------
(* Seat inventory *)

\* C1: after every sequence of createPoster, bookTicket, approveTicket and
\* rejectTicket calls run one at a time, every poster has
\* 0 <= seatsLeft <= seats, whatever numberOfPersons bookTicket accepted.
C1_SeatsWithinCapacity ==
    Quiescent =>
        \A p \in DOMAIN posters :
            0 <= posters[p].seatsLeft /\ posters[p].seatsLeft <= posters[p].seats

\* C2: while bookTicket handlers interleave, seatsLeft is never negative and
\* the persons holding a non-rejected booking of a poster never exceed its
\* seats (stated for bookings of at least one person).
C2_NoOverbooking ==
    PersonsPositive =>
        \A p \in DOMAIN posters :
            posters[p].seatsLeft >= 0 /\ Booked(p) <= posters[p].seats

\* C3: 0 <= seatsLeft <= seats in every state reachable with createPoster,
\* bookTicket, approveTicket, rejectTicket and updatePoster (stated for
\* bookings of at least one person).
C3_SeatsInvariant ==
    PersonsPositive =>
        \A p \in DOMAIN posters :
            0 <= posters[p].seatsLeft /\ posters[p].seatsLeft <= posters[p].seats

\* C6: a rejectTicket call that succeeds adds exactly the booking's stored
\* numberOfPersons to the poster's seatsLeft: its poster update adds that
\* amount, no other step of it touches a poster, it answers 200 only after
\* that update, and the stored amount never changes after the booking.
C6_RejectRestoresExactly ==
    [][/\ \A k \in DOMAIN ticketBookings :
              ticketBookings'[k].numberOfPersons = ticketBookings[k].numberOfPersons
       /\ \A h \in Handlers :
              (handlers[h].op = "rejectTicket" /\ InFlight(h) /\ Steps(h)) =>
                  /\ IF handlers[h].pc = "rt_updatePoster"
                     THEN LET k == handlers[h].id
                              p == ticketBookings[k].posterId
                          IN  posters' = [posters EXCEPT ![p].seatsLeft =
                                             @ + ticketBookings[k].numberOfPersons]
                     ELSE posters' = posters
                  /\ handlers'[h].code = 200 => handlers[h].pc = "rt_updateTicket"
      ]_vars

\* a booking of at least one person was rejected after updatePoster had cut
\* the seats below what was booked: seatsLeft now exceeds seats
C6_Witness ==
    /\ handlers[1].op = "rejectTicket" /\ handlers[1].code = 200
    /\ PersonsPositive
    /\ \E p \in DOMAIN posters : posters[p].seatsLeft > posters[p].seats

\* C7: a booking is created pending and, once approved or rejected, never
\* changes again: approveTicket or rejectTicket on it changes no table, and
\* answers the poster's head 400 'Ticket already <status>'.
C7_OneTerminalTransition ==
    [][/\ \A k \in DOMAIN ticketBookings' \ DOMAIN ticketBookings :
              ticketBookings'[k].status = "pending"
       /\ \A k \in DOMAIN ticketBookings :
              Resolved(ticketBookings[k]) =>
                  k \in DOMAIN ticketBookings' /\ ticketBookings'[k] = ticketBookings[k]
       /\ \A h \in Handlers :
              (/\ ResolvesTicket(h) /\ InFlight(h) /\ Steps(h)
               /\ handlers[h].id \in DOMAIN ticketBookings
               /\ Resolved(ticketBookings[handlers[h].id])) =>
                  LET k == handlers[h].id
                      p == ticketBookings[k].posterId
                  IN  /\ UNCHANGED tables
                      /\ (/\ handlers[h].pc \in {"at_selectPoster", "rt_selectPoster"}
                          /\ p \in DOMAIN posters
                          /\ posters[p].headId = handlers[h].uid) =>
                             /\ handlers'[h].pc = "done"
                             /\ handlers'[h].code = 400
                             /\ handlers'[h].msg =
                                    "Ticket already " \o ticketBookings[k].status
      ]_vars

\* an approveTicket on a booking that was rejected before got the 400
C7_Witness ==
    /\ handlers[1].op = "approveTicket" /\ handlers[1].code = 400
    /\ handlers[1].msg = "Ticket already rejected"
    /\ \E k \in DOMAIN ticketBookings : ticketBookings[k].status = "rejected"

\* C8: bookTicket is atomic under a store failure: once it has inserted a
\* booking (of at least one person) it does not end without the seatsLeft
\* decrement, or else without the booking being taken back.
C8_BookTicketAtomic ==
    [][\A h \in Handlers :
           (/\ handlers[h].pc = "bt_update" /\ handlers'[h].pc = "done"
            /\ handlers[h].n >= 1) =>
               \/ posters'[handlers[h].id].seatsLeft =
                      handlers[h].po.seatsLeft - handlers[h].n
               \/ Cardinality(DOMAIN ticketBookings')
                      < Cardinality(DOMAIN ticketBookings)
      ]_vars

\* C9: approveTicket and rejectTicket change a booking or a poster only for
\* the caller who is the headId of the booking's poster; a caller without a
\* head_admin token is refused 403 at the door, another head admin is
\* answered 403 by the handler, and neither changes any table.
C9_OnlyThePostersHead ==
    [][/\ \A h \in Handlers :
              (ResolvesTicket(h) /\ InFlight(h)) => handlers[h].role = "head_admin"
       /\ \A h \in Handlers :
              (~InFlight(h) /\ Steps(h) /\ handlers'[h].op = "none") =>
                  /\ handlers'[h].pc = "done" /\ handlers'[h].code = 403
                  /\ UNCHANGED tables
       /\ \A h \in Handlers :
              (ResolvesTicket(h) /\ InFlight(h) /\ Steps(h)) =>
                  LET k == handlers[h].id IN
                  /\ (ticketBookings' # ticketBookings \/ posters' # posters) =>
                         /\ k \in DOMAIN ticketBookings
                         /\ ticketBookings[k].posterId \in DOMAIN posters
                         /\ posters[ticketBookings[k].posterId].headId = handlers[h].uid
                  /\ (/\ handlers[h].pc \in {"at_selectPoster", "rt_selectPoster"}
                      /\ k \in DOMAIN ticketBookings
                      /\ ticketBookings[k].posterId \in DOMAIN posters
                      /\ posters[ticketBookings[k].posterId].headId # handlers[h].uid) =>
                         /\ handlers'[h].pc = "done" /\ handlers'[h].code = 403
                         /\ UNCHANGED tables
      ]_vars

\* the head of another club tried to approve a pending booking and got the
\* 403; the booking is still pending
C9_Witness ==
    /\ handlers[1].op = "approveTicket" /\ handlers[1].code = 403
    /\ handlers[1].msg = "You can only approve tickets for your own events"
    /\ \E k \in DOMAIN ticketBookings : ticketBookings[k].status = "pending"

\* C10: bookTicket for more persons than the poster's seatsLeft answers 400
\* 'Not enough seats available', and bookTicket for a missing poster answers
\* 404; neither call writes anything.
C10_RefusedBookingWritesNothing ==
    [][\A h \in Handlers :
           /\ (handlers[h].op = "bookTicket" /\ handlers[h].pc = "bt_select" /\ Steps(h)) =>
                  LET p == handlers[h].id IN
                  /\ p \notin DOMAIN posters =>
                         /\ handlers'[h].pc = "done" /\ handlers'[h].code = 404
                         /\ handlers'[h].msg = "Poster not found"
                         /\ UNCHANGED tables
                  /\ (p \in DOMAIN posters /\ handlers[h].n > posters[p].seatsLeft) =>
                         /\ handlers'[h].pc = "done" /\ handlers'[h].code = 400
                         /\ handlers'[h].msg = "Not enough seats available"
                         /\ UNCHANGED tables
           /\ (~InFlight(h) /\ Steps(h)) => UNCHANGED tables
      ]_vars

\* a booking for more persons than are left was refused: the poster still has
\* all its seats and there is no booking
C10_Witness ==
    /\ handlers[1].op = "bookTicket" /\ handlers[1].code = 400
    /\ handlers[1].msg = "Not enough seats available"
    /\ ticketBookings = EmptyTable
    /\ \E p \in DOMAIN posters : posters[p].seatsLeft = posters[p].seats

-----------------------------------------------------------------------------
(* Request pipeline *)

\* C4: a club or event request that is approved or rejected never changes
\* again: an approve or reject call that reads it resolved answers 400
\* 'Request already <status>' and changes no table.
C4_ResolvedIsFinal ==
    [][/\ \A r \in DOMAIN clubRequests :
              Resolved(clubRequests[r]) =>
                  r \in DOMAIN clubRequests' /\ clubRequests'[r] = clubRequests[r]
       /\ \A r \in DOMAIN eventRequests :
              Resolved(eventRequests[r]) =>
                  r \in DOMAIN eventRequests' /\ eventRequests'[r] = eventRequests[r]
       /\ \A h \in Handlers :
              (/\ handlers[h].op \in {"approveClubRequest", "rejectClubRequest"}
               /\ handlers[h].pc \in {"acr_select", "rcr_select"} /\ Steps(h)
               /\ handlers[h].id \in DOMAIN clubRequests
               /\ Resolved(clubRequests[handlers[h].id])) =>
                  /\ handlers'[h].pc = "done" /\ handlers'[h].code = 400
                  /\ handlers'[h].msg =
                         "Request already " \o clubRequests[handlers[h].id].status
                  /\ UNCHANGED tables
       /\ \A h \in Handlers :
              (/\ handlers[h].op \in {"approveEventRequest", "rejectEventRequest"}
               /\ handlers[h].pc \in {"aer_select", "rer_select"} /\ Steps(h)
               /\ handlers[h].id \in DOMAIN eventRequests
               /\ Resolved(eventRequests[handlers[h].id])) =>
                  /\ handlers'[h].pc = "done" /\ handlers'[h].code = 400
                  /\ handlers'[h].msg =
                         "Request already " \o eventRequests[handlers[h].id].status
                  /\ UNCHANGED tables
      ]_vars

\* a rejectEventRequest on an event request that was approved before got the
\* 400; the request is still approved and its event is there
C4_Witness ==
    /\ handlers[1].op = "rejectEventRequest" /\ handlers[1].code = 400
    /\ handlers[1].msg = "Request already approved"
    /\ \E r \in DOMAIN eventRequests : eventRequests[r].status = "approved"
    /\ events # EmptyTable

\* C5: approveClubRequest is all or nothing: once no approval is in flight,
\* an approved request has its club (same name, same head) and its
\* requester is head_admin.
C5_ApprovalAtomic ==
    Quiescent =>
        \A r \in DOMAIN clubRequests :
            clubRequests[r].status = "approved" =>
                /\ \E c \in DOMAIN clubs :
                       /\ clubs[c].name = clubRequests[r].clubName
                       /\ clubs[c].headId = clubRequests[r].headId
                /\ users[clubRequests[r].headId].role = "head_admin"

-----------------------------------------------------------------------------
(* Input validation of bookTicket *)

\* C11: bookTicket refuses numberOfPersons < 1 and creates no booking for
\* it, so every ticket booking row is for at least one person.
C11_PersonsAtLeastOne ==
    \A k \in DOMAIN ticketBookings : ~(ticketBookings[k].numberOfPersons < 1)

-----------------------------------------------------------------------------
(* Capacity update *)

\* C12: an updatePoster whose body carries a seats value s different from the
\* poster's seats sets seats to s and seatsLeft to
\* max(0, seatsLeft + (s - seats)); an updatePoster that carries no seats, or
\* the same seats, leaves seats and seatsLeft as they are.
C12_UpdateAppliesDelta ==
    [][\A h \in Handlers :
           (handlers[h].pc = "up_update" /\ Steps(h)) =>
               LET p == handlers[h].id
                   s == handlers[h].n
                   moved == posters[p].seatsLeft + (s - posters[p].seats)
               IN  IF s # Undefined /\ s # posters[p].seats
                   THEN /\ posters'[p].seats = s
                        /\ posters'[p].seatsLeft = IF moved < 0 THEN 0 ELSE moved
                   ELSE /\ posters'[p].seats = posters[p].seats
                        /\ posters'[p].seatsLeft = posters[p].seatsLeft
      ]_vars

-----------------------------------------------------------------------------
(* Materialization of an approved club request *)

\* C13: when approveClubRequest answers 200, the request is approved, a club
\* with the request's clubName and the requester as headId exists, and the
\* requester's stored role is head_admin.
C13_ApprovalMaterializes ==
    [][\A h \in Handlers :
           (/\ handlers[h].op = "approveClubRequest" /\ Steps(h)
            /\ handlers'[h].code = 200) =>
               LET r == handlers[h].id IN
               /\ handlers[h].role = "super_admin"
               /\ handlers[h].rq.status = "pending"
               /\ clubRequests'[r].status = "approved"
               /\ \E c \in DOMAIN clubs' :
                      /\ clubs'[c].name = clubRequests'[r].clubName
                      /\ clubs'[c].headId = clubRequests'[r].headId
               /\ users'[clubRequests'[r].headId].role = "head_admin"
      ]_vars

\* an approval has answered 200: the club of the request is there
C13_Witness ==
    /\ handlers[1].op = "approveClubRequest" /\ handlers[1].code = 200
    /\ \E r \in DOMAIN clubRequests, c \in DOMAIN clubs :
           /\ clubRequests[r].status = "approved"
           /\ clubs[c].name = clubRequests[r].clubName
           /\ clubs[c].headId = clubRequests[r].headId
           /\ users[clubs[c].headId].role = "head_admin"

-----------------------------------------------------------------------------
(* Likes *)

\* C16: toggleLikePost by a user who has no like on the post adds the one
\* row of that (user, post) pair and raises likes by 1; called again it
\* removes the row and lowers likes by 1; no call touches another pair's
\* row, and between calls likes is the number of rows of the post: so two
\* calls in a row put likes back and leave no row of the pair.
C16_ToggleTwiceRestores ==
    [][/\ \A h \in Handlers :
              (handlers[h].op = "toggleLikePost" /\ InFlight(h) /\ Steps(h)) =>
                  LET p == handlers[h].id
                      u == handlers[h].uid
                      pair == LikesOf(p, u)
                      pair2 == {l \in DOMAIN postLikes' :
                                   postLikes'[l].postId = p /\ postLikes'[l].userId = u}
                      others == DOMAIN postLikes \ pair
                  IN  /\ \A l \in others :
                             l \in DOMAIN postLikes' /\ postLikes'[l] = postLikes[l]
                      /\ DOMAIN postLikes' \ pair2 = others
                      /\ handlers[h].pc = "tl_selectLike" =>
                             handlers'[h].pc = IF pair = {} THEN "tl_insertLike"
                                               ELSE "tl_deleteLike"
                      /\ handlers[h].pc = "tl_insertLike" =>
                             /\ pair = {} /\ Cardinality(pair2) = 1
                             /\ posts' = posts
                      /\ handlers[h].pc = "tl_increment" =>
                             /\ posts'[p].likes = posts[p].likes + 1
                             /\ postLikes' = postLikes
                             /\ handlers'[h].msg = "Post liked successfully"
                      /\ handlers[h].pc = "tl_deleteLike" =>
                             /\ pair # {} /\ pair2 = {}
                             /\ posts' = posts
                      /\ handlers[h].pc = "tl_decrement" =>
                             /\ posts'[p].likes = posts[p].likes - 1
                             /\ postLikes' = postLikes
                             /\ handlers'[h].msg = "Post unliked successfully"
       /\ Quiescent =>
              \A p \in DOMAIN posts : posts[p].likes = Cardinality(LikesOfPost(p))
      ]_vars

\* the one like ever given was taken back by the next toggle of its pair: the
\* posts are at 0 likes again and no row is left
C16_Witness ==
    /\ handlers[1].op = "toggleLikePost" /\ handlers[1].code = 200
    /\ handlers[1].msg = "Post unliked successfully"
    /\ autoinc.postLikes = 1
    /\ postLikes = EmptyTable
    /\ posts # EmptyTable
    /\ \A p \in DOMAIN posts : posts[p].likes = 0

\* C17: whenever no toggleLikePost is in flight, every post's likes is the
\* number of its post_likes rows, and no (user, post) pair has two rows,
\* however the toggleLikePost handlers interleaved.
C17_LikesMatchRows ==
    Quiescent =>
        /\ \A p \in DOMAIN posts : posts[p].likes = Cardinality(LikesOfPost(p))
        /\ \A p \in DOMAIN posts, u \in UserIds : Cardinality(LikesOf(p, u)) <= 1

-----------------------------------------------------------------------------
(* Club deletion *)

\* every booking has its poster, every like its post, every poster its event
NoDanglingRows ==
    /\ \A k \in DOMAIN ticketBookings : ticketBookings[k].posterId \in DOMAIN posters
    /\ \A l \in DOMAIN postLikes : postLikes[l].postId \in DOMAIN posts
    /\ \A p \in DOMAIN posters : posters[p].eventId \in DOMAIN events

\* C14: when deleteClub(c) answers 200 (to a super_admin), no poster, post,
\* event or event request of club c is left, no booking is left without its
\* poster and no like without its post, the club row is gone and the stored
\* role of the club's head is student.
C14_DeleteClubCascades ==
    [][\A h \in Handlers :
           (/\ handlers[h].op = "deleteClub" /\ Steps(h)
            /\ handlers'[h].code = 200) =>
               LET c == handlers[h].id IN
               /\ handlers[h].role = "super_admin"
               /\ c \in DOMAIN clubs /\ c \notin DOMAIN clubs'
               /\ {p \in DOMAIN posters' : posters'[p].clubId = c} = {}
               /\ {p \in DOMAIN posts' : posts'[p].clubId = c} = {}
               /\ {e \in DOMAIN events' : events'[e].clubId = c} = {}
               /\ {r \in DOMAIN eventRequests' : eventRequests'[r].clubId = c} = {}
               /\ NoDanglingRows'
               /\ users'[clubs[c].headId].role = "student"
      ]_vars

\* club 1 was deleted after it had a poster with a booking and a post: the
\* poster, the booking, the post, the event and the event request are gone,
\* and user 2 is a student again
C14_Witness ==
    /\ handlers[1].op = "deleteClub" /\ handlers[1].code = 200
    /\ 1 \notin DOMAIN clubs
    /\ autoinc.posters >= 1 /\ posters = EmptyTable
    /\ autoinc.ticketBookings >= 1 /\ ticketBookings = EmptyTable
    /\ autoinc.posts >= 1 /\ posts = EmptyTable
    /\ autoinc.postLikes >= 1 /\ postLikes = EmptyTable
    /\ events = EmptyTable /\ eventRequests = EmptyTable
    /\ users[2].role = "student"

\* C15: deleteClub deletes in dependency order: in every state, between its
\* writes too, every booking has its poster, every like its post and every
\* poster its event, and the club row goes only when no poster, post, event
\* or event request of the club is left.
C15_DependencyOrder ==
    [][/\ NoDanglingRows'
       /\ \A c \in DOMAIN clubs \ DOMAIN clubs' :
              /\ RowsOfClub(posters, c) = {}
              /\ RowsOfClub(posts, c) = {}
              /\ RowsOfClub(events, c) = {}
              /\ RowsOfClub(eventRequests, c) = {}
      ]_vars

\* deleteClub is between two writes: the bookings and the posters of the club
\* are deleted, its event is still there
C15_Witness ==
    /\ handlers[1].op = "deleteClub" /\ handlers[1].pc = "dc_deleteEvents"
    /\ autoinc.posters >= 1 /\ posters = EmptyTable
    /\ autoinc.ticketBookings >= 1 /\ ticketBookings = EmptyTable
    /\ events # EmptyTable

-----------------------------------------------------------------------------
(* Roles *)

\* C18: a user's stored role changes only in a step of approveClubRequest
\* that makes the submitter of the request head_admin, or in a step of
\* deleteClub that makes the head of the club a student.
C18_RoleChangesOnlyByApprovalOrDeletion ==
    [][\A u \in UserIds :
           users'[u].role # users[u].role =>
               \E h \in Handlers :
                   /\ Steps(h)
                   /\ \/ /\ handlers[h].op = "approveClubRequest"
                         /\ users'[u].role = "head_admin"
                         /\ handlers[h].id \in DOMAIN clubRequests
                         /\ clubRequests[handlers[h].id].headId = u
                      \/ /\ handlers[h].op = "deleteClub"
                         /\ users'[u].role = "student"
                         /\ handlers[h].id \in DOMAIN clubs
                         /\ clubs[handlers[h].id].headId = u
      ]_vars

-----------------------------------------------------------------------------
(* Heads of clubs *)

\* C19: in every reachable state no user is the headId of two clubs.
C19_OneClubPerHead ==
    \A c \in DOMAIN clubs, d \in DOMAIN clubs :
        clubs[c].headId = clubs[d].headId => c = d

-----------------------------------------------------------------------------
(* Who may submit a request *)

\* C20: a club request row is created only by a caller whose role is
\* student, and an event request row only by a caller whose role is
\* head_admin, for a club that caller heads; the new row is pending. (The
\* caller's role is taken to be right when either the token or the stored
\* role is the submitter role.)
C20_OnlySubmittersSubmit ==
    [][/\ \A r \in DOMAIN clubRequests' \ DOMAIN clubRequests :
              \E h \in Handlers :
                  /\ Steps(h) /\ handlers[h].op = "createClubRequest"
                  /\ clubRequests'[r].status = "pending"
                  /\ \/ handlers[h].role = "student"
                     \/ users[handlers[h].uid].role = "student"
       /\ \A r \in DOMAIN eventRequests' \ DOMAIN eventRequests :
              \E h \in Handlers :
                  /\ Steps(h) /\ handlers[h].op = "createEventRequest"
                  /\ eventRequests'[r].status = "pending"
                  /\ \/ handlers[h].role = "head_admin"
                     \/ users[handlers[h].uid].role = "head_admin"
                  /\ eventRequests'[r].clubId \in DOMAIN clubs
                  /\ clubs[eventRequests'[r].clubId].headId = handlers[h].uid
      ]_vars

-----------------------------------------------------------------------------
(* Calendar *)

\* C21: getUserCalendar and getCombinedCalendar answer 200 with, as ticket
\* entries, exactly the caller's bookings whose status is approved: no pending
\* or rejected booking and no booking of another user is among them, and no
\* approved booking of the caller is left out.
C21_CalendarShowsApproved ==
    [][\A h \in Handlers :
           (/\ handlers[h].op \in {"getUserCalendar", "getCombinedCalendar"}
            /\ InFlight(h) /\ Steps(h) /\ handlers'[h].pc = "done") =>
               /\ handlers'[h].code = 200
               /\ \A k \in DOMAIN ticketBookings :
                      k \in handlers'[h].out <=>
                          /\ ticketBookings[k].userId = handlers[h].uid
                          /\ ticketBookings[k].status = "approved"
               /\ handlers'[h].out \subseteq DOMAIN ticketBookings
               /\ UNCHANGED tables
      ]_vars

\* user 1's booking was approved and user 1's calendar shows it
C21_Witness ==
    /\ handlers[1].op = "getUserCalendar" /\ handlers[1].code = 200
    /\ handlers[1].out # {}
    /\ \A k \in handlers[1].out :
           ticketBookings[k].userId = 1 /\ ticketBookings[k].status = "approved"

-----------------------------------------------------------------------------
(* Where clubs and events come from *)

-----------------------------------------------------------------------------
(* Registration and the verification email *)

\* C23: whether or not the verification email could be sent, register goes
\* on to create the user row: the step that waits for sendEmail never ends
\* the registration, and changes no table.
C23_EmailFailureDoesNotFailRegister ==
    [][\A h \in Handlers :
           (handlers[h].op = "register" /\ handlers[h].pc = "rg_sendEmail"
            /\ Steps(h)) =>
               /\ handlers'[h].pc = "rg_insert"
               /\ UNCHANGED tables
      ]_vars

-----------------------------------------------------------------------------
(* Uploaded files *)

\* C24: when a request that carried a file ends in a failure response (400,
\* 404 or 500), the file it uploaded is no longer in the upload directory.
C24_FailedRequestLeavesNoFile ==
    [][\A h \in Handlers :
           (Steps(h) /\ handlers'[h].pc = "done" /\ handlers'[h].code >= 400) =>
               LET mine == IF InFlight(h)
                           THEN {handlers[h].file} \ {0}
                           ELSE DOMAIN uploads'.files \ DOMAIN uploads.files
               IN  mine \cap DOMAIN uploads'.files = {}
      ]_vars

\* C25: the image of every post is a file of the upload directory: the sweep
\* never deletes a file that a live post refers to.
C25_SweepKeepsReferencedFiles ==
    \A p \in DOMAIN posts :
        posts[p].image # 0 => posts[p].image \in DOMAIN uploads.files

-----------------------------------------------------------------------------
(* Concurrent resolution of a booking *)

\* the seats of its poster that booking k still holds: what is missing from
\* the poster's seatsLeft and is not held by the poster's other bookings
SeatsHeldFor(k) ==
    LET p == ticketBookings[k].posterId
        others == {j \in DOMAIN ticketBookings \ {k} :
                      /\ ticketBookings[j].posterId = p
                      /\ ticketBookings[j].status # "rejected"}
    IN  posters[p].seats - posters[p].seatsLeft - SumPersons(others)

\* C26: however approveTicket and rejectTicket calls on a pending booking
\* interleave, once they have all answered the booking's seats are back on
\* the poster exactly once if the booking is rejected, and not at all if it
\* is not.
C26_RestoredIffRejected ==
    Quiescent =>
        \A k \in DOMAIN ticketBookings :
            SeatsHeldFor(k) = IF ticketBookings[k].status = "rejected"
                              THEN 0
                              ELSE ticketBookings[k].numberOfPersons

-----------------------------------------------------------------------------
(* Seat conservation *)

\* C27: for a poster whose seats is never updated, once every handler has
\* answered, seatsLeft plus the persons of the poster's pending and approved
\* bookings is seats, however bookTicket handlers interleaved with an
\* approveTicket or a rejectTicket.
C27_SeatsConserved ==
    Quiescent =>
        \A p \in DOMAIN posters :
            posters[p].seatsLeft + Booked(p) = posters[p].seats

-----------------------------------------------------------------------------
(* Interleaved resolve calls on one request *)

\* C28: however approve and reject calls on one pending request interleave,
\* the request gets at most one entity: there are never more Event rows
\* than approved event requests nor more Club rows than approved club
\* requests, so a request that ended rejected has none.
C28_OneEntityPerRequest ==
    /\ Cardinality(DOMAIN events)
           <= Cardinality({r \in DOMAIN eventRequests :
                               eventRequests[r].status = "approved"})
    /\ Cardinality(DOMAIN clubs)
           <= Cardinality({r \in DOMAIN clubRequests :
                               clubRequests[r].status = "approved"})

-----------------------------------------------------------------------------
(* Role checks and the stored role *)

\* the routes and controllers that let in head admins only, and super admins
\* only
HeadAdminRoutes ==
    {"createPoster", "updatePoster", "approveTicket", "rejectTicket",
     "createEventRequest", "createPost"}

SuperAdminRoutes ==
    {"approveClubRequest", "rejectClubRequest", "approveEventRequest",
     "rejectEventRequest", "deleteClub", "updateUserRole"}

\* C29: a request passes a role check only if the role stored for its caller
\* at that moment is the required one, whatever role the caller's token was
\* issued with: a handler behind a head_admin check is entered only for a
\* caller stored as head_admin, one behind a super_admin check only for a
\* caller stored as super_admin.
C29_RoleChecksUseStoredRole ==
    [][\A h \in Handlers :
           (Free(h) /\ handlers'[h].pc \notin {"idle", "done"}) =>
               /\ handlers'[h].op \in HeadAdminRoutes =>
                      users[handlers'[h].uid].role = "head_admin"
               /\ handlers'[h].op \in SuperAdminRoutes =>
                      users[handlers'[h].uid].role = "super_admin"
      ]_vars

-----------------------------------------------------------------------------
(* Email verification codes *)

\* handler h takes a verifyEmail request in this step
VerifyEmailCalled(h) ==
    /\ Free(h)
    /\ handlers'[h].op = "verifyEmail"
    /\ handlers'[h] # handlers[h]

\* handler h answers 400 in this step
Answers400(h) == handlers'[h].pc = "done" /\ handlers'[h].code = 400

====
